---- MODULE Spec2Model ----
(***************************************************************************)
(* Model of the bidirectional sync engine of notion-doc-sync: the          *)
(* timestamp utility (timestamp-utils.ts), the local document store        *)
(* (local-docs-reader.ts), the remote client (notion-client.ts), the sync  *)
(* command (commands/sync.ts), the documentation mapper (doc-mapper.ts),   *)
(* the git analyzer (git-analyzer.ts) and the stamp command.               *)
(*                                                                         *)
(* A document text is a sequence of lines.  A line is a record             *)
(*   [kind, id, fmt, ms, text]                                             *)
(* kind = "id"    : an identifier line, fmt "eq" for `pageId=<id>`,        *)
(*                  fmt "alt" for `page_id: <id>`; id is the sequence of   *)
(*                  characters written after the prefix                    *)
(* kind = "title" : `# <text>`                                             *)
(* kind = "ts"    : `*Last updated: <raw>*`; the raw value is an ISO-8601  *)
(*                  string with milliseconds (fmt "iso", ms), a legacy     *)
(*                  YYYY-MM-DD date (fmt "date", ms = day number) or a     *)
(*                  text that is no date (fmt "bad")                       *)
(*                  text is what follows the closing asterisk on the line  *)
(* kind = "open"  : `*Last updated:` and nothing after it                  *)
(* kind = "close" : `<raw>*`, a value and a closing asterisk               *)
(* kind = "tags"  : `**Tags:** <text>`                                     *)
(* kind = "text"  : any other non-blank line                               *)
(* kind = "blank" : an empty line                                          *)
(* Points in time are integers (milliseconds since the epoch); an optional *)
(* value is the empty sequence (absent) or a one-element sequence.         *)
(***************************************************************************)
EXTENDS Integers, Sequences, FiniteSets, TLC

None == << >>

Some(x) == << x >>

IsSome(o) == o # << >>

Val(o) == o[1]

----------------------------------------------------------------------------
(* Lines *)

NoId == << >>

Line(k, i, f, m, t) == [kind |-> k, id |-> i, fmt |-> f, ms |-> m, text |-> t]

IdLine(f, i) == Line("id", i, f, 0, "")

TitleLine(t) == Line("title", NoId, "", 0, t)

MarkerLine(f, m) == Line("ts", NoId, f, m, "")

TagsLine(t) == Line("tags", NoId, "", 0, t)

TextLine(t) == Line("text", NoId, "", 0, t)

BlankLine == Line("blank", NoId, "", 0, "")

OpenLine == Line("open", NoId, "", 0, "")

CloseLine(f, m) == Line("close", NoId, f, m, "")

DayMs == 24 * 60 * 60 * 1000

----------------------------------------------------------------------------
(* timestamp-utils.ts *)

\* the first match of a search: the lowest of the matching positions, 0 if
\* there is none
Lowest(S) == IF S = {} THEN 0 ELSE CHOOSE i \in S : \A j \in S : i <= j

\* a line that holds a whole match of TIMESTAMP_REGEX
IsMarker(l) == l.kind = "ts"

\* a raw value that is no date
NoDate == [fmt |-> "bad", ms |-> 0]

\* what (.+?) captures when (.+?)\* matches at the start of the line, None
\* when it cannot match there: the value of a closing line; the text up to
\* the second asterisk of a line that starts with an asterisk
StarGroup(l) ==
    CASE l.kind = "close" -> Some([fmt |-> l.fmt, ms |-> l.ms])
      [] l.kind \in {"ts", "tags"} -> Some(NoDate)
      [] l.kind = "text" /\ l.text = "*No content available*" -> Some(NoDate)
      [] OTHER -> None

\* the line (.+?)\* is matched on when *Last updated: is matched on line i:
\* line i itself when it holds the whole marker, else the next line that is
\* not blank, 0 if there is none (\s* runs over line ends)
GroupLine(content, i) ==
    IF IsMarker(content[i]) THEN i
    ELSE Lowest({j \in (i + 1)..Len(content) : content[j].kind # "blank"})

\* TIMESTAMP_REGEX = /\*Last updated:\s*(.+?)\*/ matches from line i on
IsMarkerAt(content, i) ==
    \/ IsMarker(content[i])
    \/ /\ content[i].kind = "open"
       /\ GroupLine(content, i) # 0
       /\ IsSome(StarGroup(content[GroupLine(content, i)]))

\* the line on which the first match of TIMESTAMP_REGEX starts, 0 if the
\* text holds no match
TimestampMatch(content) ==
    Lowest({i \in 1..Len(content) : IsMarkerAt(content, i)})

\* match[1] of the match that starts on line i
MatchGroup(content, i) ==
    IF IsMarker(content[i]) THEN [fmt |-> content[i].fmt, ms |-> content[i].ms]
    ELSE Val(StarGroup(content[GroupLine(content, i)]))

\* what follows the match on its last line
Remainder(l) ==
    CASE l.kind = "ts" -> l.text
      [] l.kind = "tags" -> "Tags:** " \o l.text
      [] OTHER -> ""

\* new Date(raw).getTime(): ISO strings and date-only strings parse,
\* anything else is an Invalid Date
DateParse(l) ==
    CASE l.fmt = "iso" -> Some(l.ms)
      [] l.fmt = "date" -> Some(l.ms * DayMs)
      [] OTHER -> None

parseTimestamp(content) ==
    LET i == TimestampMatch(content)
    IN  IF i = 0 THEN None ELSE DateParse(MatchGroup(content, i))

\* Date.prototype.toISOString: millisecond precision, Z suffix
formatTimestamp(date) == [fmt |-> "iso", ms |-> date]

buildTimestampLine(date) ==
    LET iso == formatTimestamp(date) IN MarkerLine(iso.fmt, iso.ms)

\* variant: every marker of the text is rewritten (a global replace)
replaceTimestampInContent_all(content, newDate) ==
    [i \in 1..Len(content) |->
        IF IsMarker(content[i]) THEN buildTimestampLine(newDate) ELSE content[i]]

\* String.replace of the first match: the lines of the match become one
\* marker line, followed by what the match left of its last line
replaceTimestampInContent(content, newDate) ==
    LET i == TimestampMatch(content)
    IN  IF i = 0 THEN content
        ELSE LET j == GroupLine(content, i)
             IN  SubSeq(content, 1, i - 1)
                 \o << [buildTimestampLine(newDate) EXCEPT
                           !.text = Remainder(content[j])] >>
                 \o SubSeq(content, j + 1, Len(content))

\* variant: the times are compared at millisecond resolution
compareSyncTimestamps_exact(local, notion) ==
    IF local = None THEN "pull"
    ELSE IF notion > Val(local) THEN "pull"
    ELSE IF Val(local) > notion THEN "push"
    ELSE "none"

\* variant: the times are rounded to the nearest second, not truncated
compareSyncTimestamps_round(local, notion) ==
    IF local = None THEN "pull"
    ELSE LET localSeconds == (Val(local) + 500) \div 1000
             notionSeconds == (notion + 500) \div 1000
         IN  IF notionSeconds > localSeconds THEN "pull"
             ELSE IF localSeconds > notionSeconds THEN "push"
             ELSE "none"

compareSyncTimestamps(local, notion) ==
    IF local = None THEN "pull"
    ELSE LET localSeconds == Val(local) \div 1000
             notionSeconds == notion \div 1000
         IN  IF notionSeconds > localSeconds THEN "pull"
             ELSE IF localSeconds > notionSeconds THEN "push"
             ELSE "none"

----------------------------------------------------------------------------
(* local-docs-reader.ts: pure helpers *)

Hex == {"a", "b", "c", "d", "e", "f", "0", "1"}

RECURSIVE HexPrefix(_)
\* the text captured by ([a-f0-9]+): the longest run of hex characters
HexPrefix(id) ==
    IF id = << >> \/ Head(id) \notin Hex THEN << >>
    ELSE << Head(id) >> \o HexPrefix(Tail(id))

\* String.replace(/-/g, '')
StripDashes(id) == SelectSeq(id, LAMBDA c : c # "-")

\* a line on which /pageId=([a-f0-9]+)/i matches
IsEqIdMatch(l) == l.kind = "id" /\ l.fmt = "eq" /\ HexPrefix(l.id) # << >>

\* a line on which /page[_-]?id[:\s]*([a-f0-9]+)/i matches
IsAltIdMatch(l) == l.kind = "id" /\ HexPrefix(l.id) # << >>

\* a line on which /pageId=/i matches
IsPageIdLine(l) == l.kind = "id" /\ l.fmt = "eq"

extractPageId(content) ==
    LET pageIdMatch == Lowest({i \in 1..Len(content) : IsEqIdMatch(content[i])})
        altMatch == Lowest({i \in 1..Len(content) : IsAltIdMatch(content[i])})
    IN  IF pageIdMatch # 0 THEN Some(HexPrefix(content[pageIdMatch].id))
        ELSE IF altMatch # 0 THEN Some(HexPrefix(content[altMatch].id))
        ELSE None

\* the identifier line kept by a pull: a one-line text, or empty ('')
extractPageIdLine(content) ==
    LET i == Lowest({k \in 1..Len(content) : IsPageIdLine(content[k])})
        pageId == extractPageId(content)
    IN  IF i # 0 THEN << content[i] >>
        ELSE IF IsSome(pageId) THEN << IdLine("eq", Val(pageId)) >>
        ELSE << >>

NoContentLine == TextLine("*No content available*")

\* Array.join(', ') of a tag list of at most one tag
JoinTags(tags) == IF Len(tags) = 1 THEN tags[1] ELSE "tags"

buildUpdatedContent(pageIdLine, notionDoc) ==
    (IF pageIdLine # << >> THEN pageIdLine \o << BlankLine >> ELSE << >>)
    \o (IF notionDoc.title # "" THEN << TitleLine(notionDoc.title), BlankLine >> ELSE << >>)
    \o << buildTimestampLine(notionDoc.lastModified), BlankLine >>
    \o (IF Len(notionDoc.tags) > 0 THEN << TagsLine(JoinTags(notionDoc.tags)), BlankLine >> ELSE << >>)
    \o (IF notionDoc.content # << >> THEN notionDoc.content ELSE << NoContentLine >>)
    \o << BlankLine >>

RECURSIVE StripLeadingBlank(_)
StripLeadingBlank(ls) ==
    IF ls # << >> /\ Head(ls).kind = "blank" THEN StripLeadingBlank(Tail(ls)) ELSE ls

RECURSIVE StripTrailingBlank(_)
StripTrailingBlank(ls) ==
    IF ls # << >> /\ ls[Len(ls)].kind = "blank"
    THEN StripTrailingBlank(SubSeq(ls, 1, Len(ls) - 1))
    ELSE ls

\* String.trim() of a text given as lines
Trim(ls) == StripTrailingBlank(StripLeadingBlank(ls))

\* the lines the filter of extractBodyContent keeps
IsBodyLine(l) ==
    /\ ~ IsPageIdLine(l)
    /\ l.kind # "title"
    /\ l.kind \notin {"ts", "open"}
    /\ l.kind # "tags"

extractBodyContent(content) == Trim(SelectSeq(content, IsBodyLine))

extractTitleFromContent(content) ==
    LET i == Lowest({k \in 1..Len(content) : content[k].kind = "title"})
    IN  IF i = 0 THEN "" ELSE content[i].text

\* readFullDoc applied to the text of the file
readFullDoc(localDoc, rawContent) ==
    [pageId |-> localDoc.pageId,
     title |-> extractTitleFromContent(rawContent),
     lastUpdated |-> parseTimestamp(rawContent),
     bodyContent |-> extractBodyContent(rawContent),
     rawContent |-> rawContent,
     filePath |-> localDoc.filePath,
     fileName |-> localDoc.fileName]

\* md-to-notion-converter.ts: one block per non-blank line of the body
convertToBlocks(markdown) ==
    IF Trim(markdown) = << >> THEN << >>
    ELSE SelectSeq(markdown, LAMBDA l : l.kind # "blank")

----------------------------------------------------------------------------
(* doc-mapper.ts: pure functions.  A name is a sequence of characters; a   *)
(* path is a sequence of segments [name, ext]: the text before the first   *)
(* dot of the segment and the text after it ("" when the segment holds no  *)
(* dot).  A content is a sequence of items: [kind |-> "code", path] for a  *)
(* path in a code span, [kind |-> "call", name] for `name()` in a code     *)
(* span, [kind |-> "text"] for other words.  A confidence is a number of   *)
(* hundredths: 90 stands for 0.9.                                          *)

Seg(name, ext) == [name |-> name, ext |-> ext]

\* the names of path segments and functions used below
Nm ==
    [src |-> << "s", "r", "c" >>,
     docs |-> << "d", "o", "c", "s" >>,
     lib |-> << "l", "i", "b" >>,
     tests |-> << "t", "e", "s", "t", "s" >>,
     test |-> << "t", "e", "s", "t" >>,
     components |-> << "c", "o", "m", "p", "o", "n", "e", "n", "t", "s" >>,
     Button |-> << "B", "u", "t", "t", "o", "n" >>,
     button |-> << "b", "u", "t", "t", "o", "n" >>,
     renderButton |-> << "r", "e", "n", "d", "e", "r", "B", "u", "t", "t", "o", "n" >>,
     api |-> << "a", "p", "i" >>,
     gen |-> << "g", "e", "n" >>,
     other |-> << "o", "t", "h", "e", "r" >>,
     otherGen |-> << "o", "t", "h", "e", "r", "-", "g", "e", "n" >>]

Uppers == << "A", "B", "C", "D", "E", "F", "G", "H", "I", "J", "K", "L", "M",
             "N", "O", "P", "Q", "R", "S", "T", "U", "V", "W", "X", "Y", "Z" >>

IsUpper(c) == \E k \in 1..Len(Uppers) : Uppers[k] = c

\* String.toLowerCase
ToLowerCase(name) ==
    LET Lowers == << "a", "b", "c", "d", "e", "f", "g", "h", "i", "j", "k", "l", "m",
                     "n", "o", "p", "q", "r", "s", "t", "u", "v", "w", "x", "y", "z" >>
    IN  [k \in 1..Len(name) |->
            IF IsUpper(name[k])
            THEN Lowers[CHOOSE u \in 1..Len(Uppers) : Uppers[u] = name[k]]
            ELSE name[k]]

\* String.includes: part occurs in whole as a contiguous run
Includes(whole, part) ==
    \E k \in 0..(Len(whole) - Len(part)) : SubSeq(whole, k + 1, k + Len(part)) = part

\* Array.includes
ArrayIncludes(list, x) == \E k \in 1..Len(list) : list[k] = x

RECURSIVE Dedupe(_)
\* Array.from(new Set(list)): the first occurrence of every element, in order
Dedupe(list) ==
    IF list = << >> THEN << >>
    ELSE LET front == Dedupe(SubSeq(list, 1, Len(list) - 1))
             last == list[Len(list)]
         IN  IF ArrayIncludes(front, last) THEN front ELSE Append(front, last)

RECURSIVE HyphenParts(_)
\* baseName.split('-')
HyphenParts(name) ==
    LET p == Lowest({k \in 1..Len(name) : name[k] = "-"})
    IN  IF p = 0 THEN << name >>
        ELSE << SubSeq(name, 1, p - 1) >> \o HyphenParts(SubSeq(name, p + 1, Len(name)))

RECURSIVE CamelParts(_)
\* baseName.split(/(?=[A-Z])/): a cut before every capital letter but a
\* leading one
CamelParts(name) ==
    LET p == Lowest({k \in 2..Len(name) : IsUpper(name[k])})
    IN  IF p = 0 THEN << name >>
        ELSE << SubSeq(name, 1, p - 1) >> \o CamelParts(SubSeq(name, p, Len(name)))

\* isValidFilePath, for a path made of path characters: the last segment
\* has an extension, and the path is not an extension alone
isValidFilePath(path) ==
    /\ path # << >>
    /\ path[Len(path)].ext # ""
    /\ ~ (Len(path) = 1 /\ path[1].name = << >>)

\* extractFilePathReferences: the valid paths in code spans
extractFilePathReferences(content) ==
    Dedupe([k \in 1..Len(SelectSeq(content, LAMBDA it : it.kind = "code" /\ isValidFilePath(it.path))) |->
              SelectSeq(content, LAMBDA it : it.kind = "code" /\ isValidFilePath(it.path))[k].path])

\* extractFunctionNameReferences: the names followed by () in code spans
extractFunctionNameReferences(content) ==
    Dedupe([k \in 1..Len(SelectSeq(content, LAMBDA it : it.kind = "call")) |->
              SelectSeq(content, LAMBDA it : it.kind = "call")[k].name])

\* extractBaseName: the last segment up to its first dot, None when empty
extractBaseName(filePath) ==
    IF filePath = << >> \/ filePath[Len(filePath)].name = << >> THEN None
    ELSE Some(filePath[Len(filePath)].name)

\* generateSearchTerms
generateSearchTerms(baseName) ==
    Dedupe(<< baseName >>
           \o (IF Len(HyphenParts(baseName)) > 1 THEN HyphenParts(baseName) ELSE << >>)
           \o (IF Len(CamelParts(baseName)) > 1
               THEN [k \in 1..Len(CamelParts(baseName)) |-> ToLowerCase(CamelParts(baseName)[k])]
               ELSE << >>))

\* the test of matchFilenamePatterns for one code file
FilenameMatches(docFilePath, codeFile) ==
    /\ IsSome(extractBaseName(docFilePath))
    /\ IsSome(extractBaseName(codeFile))
    /\ LET searchTerms == generateSearchTerms(Val(extractBaseName(docFilePath)))
           codeBaseNameLower == ToLowerCase(Val(extractBaseName(codeFile)))
       IN  \E k \in 1..Len(searchTerms) :
              \/ Includes(codeBaseNameLower, ToLowerCase(searchTerms[k]))
              \/ Includes(ToLowerCase(searchTerms[k]), codeBaseNameLower)

matchFilenamePatterns(docFilePath, availableCodeFiles) ==
    SelectSeq(availableCodeFiles, LAMBDA codeFile : FilenameMatches(docFilePath, codeFile))

\* extractPathParts: the segments without a dot that are no root directory
extractPathParts(filePath) ==
    LET kept == SelectSeq(filePath,
                          LAMBDA part : /\ part.name \notin {Nm.src, Nm.docs, Nm.lib, Nm.tests,
                                                              Nm.test}
                                        /\ part.ext = "")
    IN  [k \in 1..Len(kept) |-> kept[k].name]

hasMatchingDirectoryStructure(docParts, codeParts) ==
    /\ Len(docParts) # 0
    /\ Len(codeParts) # 0
    /\ \E k \in 1..Len(docParts) : ArrayIncludes(codeParts, docParts[k])

matchDirectoryStructure(docFilePath, availableCodeFiles) ==
    SelectSeq(availableCodeFiles,
              LAMBDA codeFile : hasMatchingDirectoryStructure(extractPathParts(docFilePath),
                                                              extractPathParts(codeFile)))

minLength == 4

\* similarWords: some run of minLength characters of word1 occurs in word2
similarWords(word1, word2) ==
    \E k \in 0..(Len(word1) - minLength) :
        Includes(word2, SubSeq(word1, k + 1, k + minLength))

Max(a, b) == IF a > b THEN a ELSE b

\* the function-name test of calculateMappingConfidence
FunctionNameMatches(docFile, codeFile) ==
    LET functionNames == extractFunctionNameReferences(docFile.content)
        codeBaseName == extractBaseName(codeFile)
    IN  /\ codeBaseName # None
        /\ \E k \in 1..Len(functionNames) :
              LET funcLower == ToLowerCase(functionNames[k])
                  codeLower == ToLowerCase(Val(codeBaseName))
              IN  \/ Includes(funcLower, codeLower)
                  \/ Includes(codeLower, funcLower)
                  \/ similarWords(funcLower, codeLower)

\* variant: the floors of the evidence found are added up
calculateMappingConfidence_sum(docFile, codeFile) ==
    (IF ArrayIncludes(extractFilePathReferences(docFile.content), codeFile) THEN 90 ELSE 0)
    + (IF ArrayIncludes(docFile.linkedCodeFiles, codeFile) THEN 85 ELSE 0)
    + (IF FunctionNameMatches(docFile, codeFile) THEN 50 ELSE 0)
    + (IF matchFilenamePatterns(docFile.filePath, << codeFile >>) # << >> THEN 30 ELSE 0)
    + (IF matchDirectoryStructure(docFile.filePath, << codeFile >>) # << >> THEN 15 ELSE 0)

calculateMappingConfidence(docFile, codeFile) ==
    LET referenced == IF ArrayIncludes(extractFilePathReferences(docFile.content), codeFile)
                      THEN Max(0, 90) ELSE 0
        linked == IF ArrayIncludes(docFile.linkedCodeFiles, codeFile)
                  THEN Max(referenced, 85) ELSE referenced
        named == IF FunctionNameMatches(docFile, codeFile)
                 THEN Max(linked, 50) ELSE linked
        filename == IF Len(matchFilenamePatterns(docFile.filePath, << codeFile >>)) > 0
                    THEN Max(named, 30) ELSE named
        directory == IF Len(matchDirectoryStructure(docFile.filePath, << codeFile >>)) > 0
                     THEN Max(filename, 15) ELSE filename
    IN  directory

\* variant: every explicit reference is linked, and repeated files stay repeated
LinkedFiles_unfiltered(docFile, availableCodeFiles) ==
    extractFilePathReferences(docFile.content)
    \o matchFilenamePatterns(docFile.filePath, availableCodeFiles)
    \o matchDirectoryStructure(docFile.filePath, availableCodeFiles)

\* variant: the files the record is linked to already are kept
LinkedFiles_merged(docFile, availableCodeFiles) ==
    Dedupe(docFile.linkedCodeFiles
           \o SelectSeq(extractFilePathReferences(docFile.content),
                        LAMBDA refPath : ArrayIncludes(availableCodeFiles, refPath))
           \o matchFilenamePatterns(docFile.filePath, availableCodeFiles)
           \o matchDirectoryStructure(docFile.filePath, availableCodeFiles))

\* the linkedCodeFiles enhanceDocumentationFiles computes for a record
LinkedFiles(docFile, availableCodeFiles) ==
    Dedupe(SelectSeq(extractFilePathReferences(docFile.content),
                     LAMBDA refPath : ArrayIncludes(availableCodeFiles, refPath))
           \o matchFilenamePatterns(docFile.filePath, availableCodeFiles)
           \o matchDirectoryStructure(docFile.filePath, availableCodeFiles))

enhanceDocumentationFiles(documentationFiles, availableCodeFiles) ==
    [k \in 1..Len(documentationFiles) |->
        LET docFile == documentationFiles[k]
            linkedCodeFiles == LinkedFiles(docFile, availableCodeFiles)
            confidences == {calculateMappingConfidence(
                                [docFile EXCEPT !.linkedCodeFiles = linkedCodeFiles],
                                linkedCodeFiles[i]) : i \in 1..Len(linkedCodeFiles)}
            maxConfidence == IF confidences = {} THEN 0
                             ELSE CHOOSE m \in confidences : \A x \in confidences : m >= x
        IN  [docFile EXCEPT !.linkedCodeFiles = linkedCodeFiles,
                            !.mappingConfidence = maxConfidence]]

----------------------------------------------------------------------------
(* Bounds and the initial documents *)

\* number of syncCommand runs in one behaviour
MaxRuns == 2

\* milliseconds the remote clock advances with every content replacement
Tick == 700

\* the markdown files of the docs directory, in readdir order
FileNames == << "a.md", "b.md" >>

Files == {FileNames[i] : i \in 1..Len(FileNames)}

Pages == {"P1", "P2"}

LocalDoc(idPart, markerPart, body) ==
    idPart \o << TitleLine("Old"), BlankLine >> \o markerPart \o body \o << BlankLine >>

InitialA ==
    {LocalDoc(<< IdLine("eq", << "a", "1" >>), BlankLine >>, m, << TextLine("x") >>) :
        m \in {<< >>,
               << MarkerLine("iso", 1000), BlankLine >>,
               << MarkerLine("iso", 1999), BlankLine >>,
               << MarkerLine("iso", 3500), BlankLine >>,
               << MarkerLine("bad", 0), BlankLine >>}}

\* the last document carries its identifier in the alternate form and has a
\* body line that holds the text pageId= followed by no identifier
InitialB ==
    {LocalDoc(i, << m, BlankLine >>, << TextLine("y"), MarkerLine("date", 0) >>) :
        i \in {<< >>,
               << IdLine("eq", << "a", "1" >>), BlankLine >>,
               << IdLine("alt", << "b", "1" >>), BlankLine >>},
        m \in {MarkerLine("iso", 1000), MarkerLine("iso", 3500)}}
    \cup {LocalDoc(<< IdLine("alt", << "b", "1" >>), BlankLine >>,
                   << MarkerLine("date", 0), BlankLine >>,
                   << TextLine("y"), IdLine("eq", << >>) >>)}

InitialRemote ==
    {[P1 |-> [id |-> << "a", "-", "1" >>, title |-> "New", tags |-> << "t1" >>,
              blocks |-> << TextLine("r1"), TextLine("r2") >>, lastEdited |-> t],
      P2 |-> [id |-> << "b", "-", "1" >>, title |-> "Two", tags |-> << >>,
              blocks |-> << >>, lastEdited |-> 1500]] : t \in {1500, 2000}}

----------------------------------------------------------------------------
(* State *)

VARIABLES
    local,      \* file name -> text of the file
    remote,     \* page -> the page held by the remote service
    clock,      \* clock of the remote service
    pc,         \* position of syncCommand: idle, plan, exec, done
    run,        \* number of runs started
    dryRun,     \* options.dryRun of the current run
    raised,     \* the current run ended by raising
    localDocs,  \* result of readLocalDocs of the current run
    idx,        \* loop index of the planning or of the execution loop
    actions,    \* the plan
    results,    \* the SyncResults
    calls,      \* collaborator calls of the current run, in call order
    local0,     \* local files when the current run started
    remote0,    \* remote pages when the current run started
    prev,       \* local files before the action executed last
    faulted,    \* some collaborator call has failed since the start
    excluded,   \* indices of localDocs whose planning iteration threw
    execFaults, \* per result: the kinds of calls that failed while it was executed
    lastReal,   \* the previous run was a completed run without dry-run
    apiKey,     \* config.notion.apiKey as resolved by the current run
    pushDue,    \* the files some plan since the start holds a push action for
    cmpIn,      \* input of the compareSyncTimestamps driver
    cmpOut,     \* its result
    rpPc,       \* position of replacePageContent: list, delete, append, returned, thrown
    rpBefore,   \* child blocks of the page when replacePageContent was called
    rpChildren, \* child blocks of the page
    rpBlocks,   \* the blocks argument
    rpAllBlocks, \* allBlocks of listAllChildBlocks, then existingBlocks
    rpCursor,   \* cursor of listAllChildBlocks (0: undefined)
    rpIndex,    \* number of blocks deleted, then the index i of the append loop
    rpLog,      \* the requests sent to the service, in order
    rtPc,       \* position of the timestamp round trip: call, done
    rtContent,  \* the content argument of replaceTimestampInContent
    rtDate,     \* its newDate argument
    rtOut,      \* the text it returns
    rtParsed,   \* parseTimestamp of that text
    mpPc,       \* position of the doc-mapper driver: call, scored, enhanced
    mpDocs,     \* the documentationFiles argument
    mpAvailable, \* the availableCodeFiles argument
    mpCandidate, \* the codeFile argument of calculateMappingConfidence
    mpScore,    \* the confidence calculateMappingConfidence returned
    mpOut,      \* the records enhanceDocumentationFiles returned
    mappingCache, \* DocMapper.mappingCache: documentation path -> code files
    mcLog,      \* the cacheMappingResults and invalidateMappingCache calls made
    mcAsked,    \* the argument of the last getCachedMappingResults call
    mcGot,      \* what that call returned
    gaPc,       \* position of getCodeChanges: list, loop, returned, thrown
    gaBranches, \* its baseBranch and targetBranch arguments
    gaLines,    \* the lines of the name-status listing
    gaIndex,    \* index of the status line the loop is at
    gaChanges,  \* changes
    gaFailed,   \* the git invocation that failed, and the message of its error
    gaThrown,   \* the message of the error getCodeChanges threw
    stPc,       \* position of stampCommand: call, loop, done
    stFs,       \* the markdown files of the docs directory: name -> text
    stBefore,   \* those files when stampCommand was called
    stModified, \* modifiedFiles
    stIndex,    \* index of the file the loop is at
    stamped,    \* the count stampCommand reports
    stNow,      \* now
    stLog       \* per file of modifiedFiles: stamped, skipped or failed

syncVars == << local, remote, clock, pc, run, dryRun, raised, localDocs, idx,
               actions, results, calls, local0, remote0, prev, faulted, excluded,
               execFaults, lastReal, apiKey, pushDue >>

cmpVars == << cmpIn, cmpOut >>

replaceVars == << rpPc, rpBefore, rpChildren, rpBlocks, rpAllBlocks, rpCursor,
                  rpIndex, rpLog >>

roundTripVars == << rtPc, rtContent, rtDate, rtOut, rtParsed >>

mapperVars == << mpPc, mpDocs, mpAvailable, mpCandidate, mpScore, mpOut >>

cacheVars == << mappingCache, mcLog, mcAsked, mcGot >>

gitVars == << gaPc, gaBranches, gaLines, gaIndex, gaChanges, gaFailed, gaThrown >>

stampVars == << stPc, stFs, stBefore, stModified, stIndex, stamped, stNow, stLog >>

\* the variables the sync engine leaves alone
driverVars == << cmpVars, replaceVars, roundTripVars, mapperVars, cacheVars,
                gitVars, stampVars >>

vars == << syncVars, driverVars >>

Call(op, file, page, t, ok) == [op |-> op, file |-> file, page |-> page, t |-> t, ok |-> ok]

NoPage == << >>

----------------------------------------------------------------------------
(* local-docs-reader.ts and notion-client.ts: operations on the stores *)

RECURSIVE ListDocs(_, _, _)
\* the loop of readLocalDocs over the markdown files from index i on; a file
\* that cannot be read, or that holds no page id, is left out of the list
ListDocs(files, unreadable, i) ==
    IF i > Len(FileNames) THEN << >>
    ELSE LET fileName == FileNames[i]
             pageId == extractPageId(files[fileName])
         IN  (IF fileName \notin unreadable /\ IsSome(pageId)
              THEN << [filePath |-> fileName, fileName |-> fileName, pageId |-> Val(pageId)] >>
              ELSE << >>)
             \o ListDocs(files, unreadable, i + 1)

readLocalDocs(files, unreadable) == ListDocs(files, unreadable, 1)

\* pages.retrieve: the pages the service resolves the identifier to
RemoteFind(pageId) ==
    {p \in Pages : StripDashes(remote[p].id) = StripDashes(pageId)}

PageOf(pageId) == CHOOSE p \in RemoteFind(pageId) : TRUE

\* parseNotionPage: the NotionDoc of a page; fetchPageContent returns ''
\* when the conversion of the page to markdown fails
parseNotionPage(page, contentOk) ==
    [id |-> page.id, title |-> page.title, lastModified |-> page.lastEdited,
     content |-> IF contentOk THEN Trim(page.blocks) ELSE << >>, tags |-> page.tags]

\* the local file updateLocalDocs pairs with a remote document (0: none)
FindLocalDoc(docs, notionDoc) ==
    Lowest({i \in 1..Len(docs) : StripDashes(docs[i].pageId) = StripDashes(notionDoc.id)})

updateTimestampOnly(content, newDate) == replaceTimestampInContent(content, newDate)

batchSize == 100

Min(a, b) == IF a < b THEN a ELSE b

NumBatches(blocks) == (Len(blocks) + batchSize - 1) \div batchSize

\* replacePageContent: the page after each of its mutating requests, first
\* one delete per existing block, then one append per batch
ReplaceStates(page, blocks, now) ==
    [j \in 1..(Len(page.blocks) + NumBatches(blocks)) |->
        IF j <= Len(page.blocks)
        THEN [page EXCEPT !.blocks = SubSeq(page.blocks, j + 1, Len(page.blocks)),
                          !.lastEdited = now]
        ELSE [page EXCEPT !.blocks = SubSeq(blocks, 1,
                                 Min((j - Len(page.blocks)) * batchSize, Len(blocks))),
                          !.lastEdited = now]]

\* the page after the first j mutating requests
ReplaceAfter(page, blocks, now, j) ==
    IF j = 0 THEN page ELSE ReplaceStates(page, blocks, now)[j]

----------------------------------------------------------------------------
(* commands/sync.ts: syncCommand *)

\* the state before the first run, for local files l and remote pages r
InitSync(l, r) ==
    /\ local = l
    /\ remote = r
    /\ clock = 5000
    /\ pc = "idle"
    /\ run = 0
    /\ dryRun = FALSE
    /\ raised = FALSE
    /\ localDocs = << >>
    /\ idx = 0
    /\ actions = << >>
    /\ results = << >>
    /\ calls = << >>
    /\ local0 = local
    /\ remote0 = remote
    /\ prev = local
    /\ faulted = FALSE
    /\ excluded = {}
    /\ execFaults = << >>
    /\ lastReal = FALSE
    /\ apiKey = ""
    /\ pushDue = {}

\* the state in which nothing has been called yet, but for the parts named
\* in active, which the specification of a single function sets up itself
Idle(active) ==
    /\ IF "sync" \in active THEN TRUE
       ELSE InitSync([f \in Files |-> << BlankLine >>], CHOOSE r \in InitialRemote : TRUE)
    /\ IF "compare" \in active THEN TRUE
       ELSE /\ cmpIn = [local |-> None, notion |-> 0]
            /\ cmpOut = ""
    /\ IF "replace" \in active THEN TRUE
       ELSE /\ rpPc = "idle"
            /\ rpBefore = << >>
            /\ rpChildren = << >>
            /\ rpBlocks = << >>
            /\ rpAllBlocks = << >>
            /\ rpCursor = 0
            /\ rpIndex = 0
            /\ rpLog = << >>
    /\ IF "roundTrip" \in active THEN TRUE
       ELSE /\ rtPc = "idle"
            /\ rtContent = << >>
            /\ rtDate = 0
            /\ rtOut = << >>
            /\ rtParsed = None
    /\ IF "mapper" \in active THEN TRUE
       ELSE /\ mpPc = "idle"
            /\ mpDocs = << >>
            /\ mpAvailable = << >>
            /\ mpCandidate = << >>
            /\ mpScore = 0
            /\ mpOut = << >>
    /\ IF "cache" \in active THEN TRUE
       ELSE /\ mappingCache = << >>
            /\ mcLog = << >>
            /\ mcAsked = None
            /\ mcGot = None
    /\ IF "git" \in active THEN TRUE
       ELSE /\ gaPc = "idle"
            /\ gaBranches = [baseBranch |-> "", targetBranch |-> ""]
            /\ gaLines = << >>
            /\ gaIndex = 0
            /\ gaChanges = << >>
            /\ gaFailed = None
            /\ gaThrown = None
    /\ IF "stamp" \in active THEN TRUE
       ELSE /\ stPc = "idle"
            /\ stFs = << >>
            /\ stBefore = << >>
            /\ stModified = << >>
            /\ stIndex = 0
            /\ stamped = 0
            /\ stNow = 0
            /\ stLog = << >>

Init ==
    /\ Idle({"sync"})
    /\ \E a \in InitialA, b \in InitialB, r \in InitialRemote :
          InitSync([f \in Files |-> IF f = "a.md" THEN a ELSE b], r)

\* syncCommand up to the listing of the local documents
Start(dry) ==
    /\ pc \in {"idle", "done"}
    /\ run < MaxRuns
    /\ run' = run + 1
    /\ dryRun' = dry
    /\ raised' = FALSE
    /\ localDocs' = readLocalDocs(local, {})
    /\ calls' = << Call("readLocalDocs", "", NoPage, 0, TRUE) >>
    /\ actions' = << >>
    /\ results' = << >>
    /\ idx' = 1
    /\ pc' = IF localDocs' = << >> THEN "done" ELSE "plan"
    /\ local0' = local
    /\ remote0' = remote
    /\ prev' = local
    /\ excluded' = {}
    /\ execFaults' = << >>
    /\ lastReal' = (run >= 1 /\ ~ dryRun /\ ~ raised)
    /\ apiKey' = "secret"
    /\ UNCHANGED << local, remote, clock, faulted, pushDue, driverVars >>

\* readLocalDocs throws (readdir fails): syncCommand raises
StartRaise(dry) ==
    /\ pc \in {"idle", "done"}
    /\ run < MaxRuns
    /\ run' = run + 1
    /\ dryRun' = dry
    /\ raised' = TRUE
    /\ localDocs' = << >>
    /\ calls' = << Call("readLocalDocs", "", NoPage, 0, FALSE) >>
    /\ actions' = << >>
    /\ results' = << >>
    /\ idx' = 1
    /\ pc' = "done"
    /\ local0' = local
    /\ remote0' = remote
    /\ prev' = local
    /\ faulted' = TRUE
    /\ excluded' = {}
    /\ execFaults' = << >>
    /\ lastReal' = (run >= 1 /\ ~ dryRun /\ ~ raised)
    /\ apiKey' = "secret"
    /\ UNCHANGED << local, remote, clock, pushDue, driverVars >>

\* variant: the configuration is validated after the local documents are
\* listed
ConfigRaise_late(dry) ==
    /\ pc \in {"idle", "done"}
    /\ run < MaxRuns
    /\ run' = run + 1
    /\ dryRun' = dry
    /\ raised' = TRUE
    /\ localDocs' = readLocalDocs(local, {})
    /\ calls' = << Call("readLocalDocs", "", NoPage, 0, TRUE) >>
    /\ actions' = << >>
    /\ results' = << >>
    /\ idx' = 1
    /\ pc' = "done"
    /\ local0' = local
    /\ remote0' = remote
    /\ prev' = local
    /\ excluded' = {}
    /\ execFaults' = << >>
    /\ lastReal' = (run >= 1 /\ ~ dryRun /\ ~ raised)
    /\ apiKey' = ""
    /\ UNCHANGED << local, remote, clock, faulted, pushDue, driverVars >>

\* the resolved configuration holds no API key: validateConfig throws and
\* syncCommand raises before it constructs its collaborators
ConfigRaise(dry) ==
    /\ pc \in {"idle", "done"}
    /\ run < MaxRuns
    /\ run' = run + 1
    /\ dryRun' = dry
    /\ raised' = TRUE
    /\ localDocs' = << >>
    /\ calls' = << >>
    /\ actions' = << >>
    /\ results' = << >>
    /\ idx' = 1
    /\ pc' = "done"
    /\ local0' = local
    /\ remote0' = remote
    /\ prev' = local
    /\ excluded' = {}
    /\ execFaults' = << >>
    /\ lastReal' = (run >= 1 /\ ~ dryRun /\ ~ raised)
    /\ apiKey' = ""
    /\ UNCHANGED << local, remote, clock, faulted, pushDue, driverVars >>

\* variant: the dry-run option is not consulted
AfterPlan_execute(acts) ==
    IF idx < Len(localDocs) THEN "plan"
    ELSE IF acts = << >> THEN "done"
    ELSE "exec"

\* where syncCommand goes after the planning of localDocs[idx]
AfterPlan(acts) ==
    IF idx < Len(localDocs) THEN "plan"
    ELSE IF dryRun \/ acts = << >> THEN "done"
    ELSE "exec"

PlanStep(acts, newCalls, fault) ==
    /\ actions' = acts
    /\ calls' = calls \o newCalls
    /\ pc' = AfterPlan(acts)
    /\ idx' = IF idx < Len(localDocs) THEN idx + 1 ELSE 1
    /\ faulted' = (faulted \/ fault)
    /\ excluded' = IF fault THEN excluded \cup {idx} ELSE excluded
    /\ pushDue' = pushDue \cup {acts[k].filePath :
                                 k \in {i \in 1..Len(acts) : acts[i].direction = "push"}}
    /\ UNCHANGED << local, remote, clock, run, dryRun, raised, localDocs, results,
                    local0, remote0, prev, execFaults, lastReal, apiKey, driverVars >>

\* one iteration of the planning loop, both calls succeed
PlanOk ==
    /\ pc = "plan"
    /\ LET localDoc == localDocs[idx]
       IN  /\ RemoteFind(localDoc.pageId) # {}
           /\ LET metadata == readFullDoc(localDoc, local[localDoc.filePath])
                  notionTimestamp == remote[PageOf(localDoc.pageId)].lastEdited
                  direction == compareSyncTimestamps(metadata.lastUpdated, notionTimestamp)
              IN  PlanStep(Append(actions,
                              [pageId |-> localDoc.pageId,
                               filePath |-> localDoc.filePath,
                               fileName |-> localDoc.fileName,
                               direction |-> direction,
                               localTimestamp |-> metadata.lastUpdated,
                               notionTimestamp |-> notionTimestamp]),
                           << Call("readFullDoc", localDoc.filePath, NoPage, 0, TRUE),
                              Call("fetchPageLastEdited", "", localDoc.pageId,
                                   notionTimestamp, TRUE) >>,
                           FALSE)

\* one iteration of the planning loop, readFullDoc throws
PlanReadFail ==
    /\ pc = "plan"
    /\ PlanStep(actions,
                << Call("readFullDoc", localDocs[idx].filePath, NoPage, 0, FALSE) >>,
                TRUE)

\* one iteration of the planning loop, fetchPageLastEdited throws
PlanFetchFail ==
    /\ pc = "plan"
    /\ PlanStep(actions,
                << Call("readFullDoc", localDocs[idx].filePath, NoPage, 0, TRUE),
                   Call("fetchPageLastEdited", "", localDocs[idx].pageId, 0, FALSE) >>,
                TRUE)

----------------------------------------------------------------------------
(* commands/sync.ts: executeActions *)

\* variant: every successful result carries the remote time of the plan
Result_stamped(action, direction, success, error, synchronizedTimestamp) ==
    [pageId |-> action.pageId,
     fileName |-> action.fileName,
     direction |-> direction,
     success |-> success,
     error |-> error,
     synchronizedTimestamp |->
        IF success THEN Some(action.notionTimestamp) ELSE synchronizedTimestamp]

Result(action, direction, success, error, synchronizedTimestamp) ==
    [pageId |-> action.pageId,
     fileName |-> action.fileName,
     direction |-> direction,
     success |-> success,
     error |-> error,
     synchronizedTimestamp |-> synchronizedTimestamp]

\* variant: a failure is caught but no result is recorded for it
ExecStep_drop(result, newCalls, faults) ==
    /\ results' = IF result.success THEN Append(results, result) ELSE results
    /\ calls' = calls \o newCalls
    /\ prev' = local
    /\ pc' = IF idx < Len(actions) THEN "exec" ELSE "done"
    /\ idx' = IF idx < Len(actions) THEN idx + 1 ELSE idx
    /\ faulted' = (faulted \/ faults # {})
    /\ execFaults' = Append(execFaults, faults)
    /\ UNCHANGED << run, dryRun, raised, localDocs, actions, local0, remote0,
                    excluded, lastReal, apiKey, pushDue, driverVars >>

\* variant: the calls of an action are made ahead of everything the run has
\* done so far
ExecStep_ahead(result, newCalls, faults) ==
    /\ results' = Append(results, result)
    /\ calls' = newCalls \o calls
    /\ prev' = local
    /\ pc' = IF idx < Len(actions) THEN "exec" ELSE "done"
    /\ idx' = IF idx < Len(actions) THEN idx + 1 ELSE idx
    /\ faulted' = (faulted \/ faults # {})
    /\ execFaults' = Append(execFaults, faults)
    /\ UNCHANGED << run, dryRun, raised, localDocs, actions, local0, remote0,
                    excluded, lastReal, apiKey, pushDue, driverVars >>

\* the end of one iteration of the loop of executeActions
ExecStep(result, newCalls, faults) ==
    /\ results' = Append(results, result)
    /\ calls' = calls \o newCalls
    /\ prev' = local
    /\ pc' = IF idx < Len(actions) THEN "exec" ELSE "done"
    /\ idx' = IF idx < Len(actions) THEN idx + 1 ELSE idx
    /\ faulted' = (faulted \/ faults # {})
    /\ execFaults' = Append(execFaults, faults)
    /\ UNCHANGED << run, dryRun, raised, localDocs, actions, local0, remote0,
                    excluded, lastReal, apiKey, pushDue, driverVars >>

\* variant: the remote document is fetched although nothing is to be done
ExecNone_fetch ==
    /\ pc = "exec"
    /\ actions[idx].direction = "none"
    /\ ExecStep(Result(actions[idx], "none", TRUE, None, None),
                << Call("fetchPagesByIds", "", actions[idx].pageId, 0, TRUE) >>, {})
    /\ UNCHANGED << local, remote, clock >>

\* direction none: a successful result is recorded, nothing else is done
ExecNone ==
    /\ pc = "exec"
    /\ actions[idx].direction = "none"
    /\ ExecStep(Result(actions[idx], "none", TRUE, None, None), << >>, {})
    /\ UNCHANGED << local, remote, clock >>

\* pull: fetchPagesByIds catches the failure of its request and returns no
\* document; updateLocalDocs is not called
PullFetchEmpty ==
    /\ pc = "exec"
    /\ actions[idx].direction = "pull"
    /\ LET action == actions[idx]
       IN  ExecStep(Result(action, "pull", TRUE, None, Some(action.notionTimestamp)),
                    << Call("fetchPagesByIds", "", action.pageId, 0, FALSE) >>,
                    {"remote fetch"})
    /\ UNCHANGED << local, remote, clock >>

\* pull: the listing inside updateLocalDocs throws
PullListThrows ==
    /\ pc = "exec"
    /\ actions[idx].direction = "pull"
    /\ LET action == actions[idx]
       IN  /\ RemoteFind(action.pageId) # {}
           /\ ExecStep(Result(action, "pull", FALSE, Some("Failed to read local docs"), None),
                       << Call("fetchPagesByIds", "", action.pageId, 0, TRUE),
                          Call("updateLocalDocs", "", action.pageId, 0, FALSE) >>,
                       {"local read"})
    /\ UNCHANGED << local, remote, clock >>

\* pull: updateLocalDocs returns; contentOk tells whether the markdown of
\* the page could be fetched, the files in unreadable fail to be read by the
\* listing, writeOk tells whether the writeFile of the update succeeds (each
\* of these failures is caught and logged where it happens)
PullUpdate(contentOk, unreadable, writeOk) ==
    /\ pc = "exec"
    /\ actions[idx].direction = "pull"
    /\ LET action == actions[idx]
       IN  /\ RemoteFind(action.pageId) # {}
           /\ LET notionDoc == parseNotionPage(remote[PageOf(action.pageId)], contentOk)
                  docs == readLocalDocs(local, unreadable)
                  k == FindLocalDoc(docs, notionDoc)
                  wrote == k # 0 /\ writeOk
                  path == IF k # 0 THEN docs[k].filePath ELSE ""
              IN  /\ local' = IF wrote
                              THEN [local EXCEPT ![path] =
                                      buildUpdatedContent(extractPageIdLine(local[path]), notionDoc)]
                              ELSE local
                  /\ ExecStep(Result(action, "pull", TRUE, None, Some(action.notionTimestamp)),
                              << Call("fetchPagesByIds", "", action.pageId, 0, TRUE),
                                 Call("updateLocalDocs", path, action.pageId,
                                      notionDoc.lastModified, wrote) >>,
                              (IF contentOk THEN {} ELSE {"remote fetch"})
                              \cup (IF unreadable = {} THEN {} ELSE {"local read"})
                              \cup (IF k = 0 \/ writeOk THEN {} ELSE {"local write"}))
    /\ UNCHANGED << remote, clock >>

PushFile(action) == [filePath |-> action.filePath, fileName |-> action.fileName,
                     pageId |-> action.pageId]

PushBlocks(action) ==
    convertToBlocks(readFullDoc(PushFile(action), local[action.filePath]).bodyContent)

\* number of mutating requests of replacePageContent for the action
PushRequests(action) ==
    IF RemoteFind(action.pageId) = {} THEN 0
    ELSE Len(remote[PageOf(action.pageId)].blocks) + NumBatches(PushBlocks(action))

\* the remote store and its clock after the first j mutating requests
Replaced(action, j) ==
    /\ remote' = IF j = 0 THEN remote
                 ELSE [remote EXCEPT ![PageOf(action.pageId)] =
                          ReplaceAfter(@, PushBlocks(action), clock + Tick, j)]
    /\ clock' = IF j = 0 THEN clock ELSE clock + Tick

\* push: readFullDoc throws
PushReadFail ==
    /\ pc = "exec"
    /\ actions[idx].direction = "push"
    /\ LET action == actions[idx]
       IN  ExecStep(Result(action, "push", FALSE, Some("read error"), None),
                    << Call("readFullDoc", action.filePath, NoPage, 0, FALSE) >>,
                    {"local read"})
    /\ UNCHANGED << local, remote, clock >>

\* push: replacePageContent throws after some of its mutating requests
PushReplaceFail ==
    /\ pc = "exec"
    /\ actions[idx].direction = "push"
    /\ LET action == actions[idx]
       IN  \E j \in 0..PushRequests(action) :
           /\ j = 0 \/ j < PushRequests(action)
           /\ Replaced(action, j)
           /\ ExecStep(Result(action, "push", FALSE, Some("request failed"), None),
                       << Call("readFullDoc", action.filePath, NoPage, 0, TRUE),
                          Call("replacePageContent", "", action.pageId, 0, FALSE) >>,
                       {"remote write"})
    /\ UNCHANGED local

\* push: the content is replaced, fetchPageLastEdited throws
PushRefetchFail ==
    /\ pc = "exec"
    /\ actions[idx].direction = "push"
    /\ LET action == actions[idx]
       IN  /\ RemoteFind(action.pageId) # {}
           /\ Replaced(action, PushRequests(action))
           /\ ExecStep(Result(action, "push", FALSE, Some("request failed"), None),
                       << Call("readFullDoc", action.filePath, NoPage, 0, TRUE),
                          Call("replacePageContent", "", action.pageId, 0, TRUE),
                          Call("fetchPageLastEdited", "", action.pageId, 0, FALSE) >>,
                       {"remote fetch"})
    /\ UNCHANGED local

\* variant: updateTimestampOnly throws after it has written the file
PushStampFail_written ==
    /\ pc = "exec"
    /\ actions[idx].direction = "push"
    /\ LET action == actions[idx]
       IN  /\ RemoteFind(action.pageId) # {}
           /\ Replaced(action, PushRequests(action))
           /\ LET newNotionTimestamp == remote'[PageOf(action.pageId)].lastEdited
              IN  /\ local' = [local EXCEPT ![action.filePath] =
                                  updateTimestampOnly(@, newNotionTimestamp)]
                  /\ ExecStep(Result(action, "push", FALSE, Some("write error"), None),
                       << Call("readFullDoc", action.filePath, NoPage, 0, TRUE),
                          Call("replacePageContent", "", action.pageId, 0, TRUE),
                          Call("fetchPageLastEdited", "", action.pageId,
                               newNotionTimestamp, TRUE),
                          Call("updateTimestampOnly", action.filePath, NoPage,
                               newNotionTimestamp, FALSE) >>,
                       {"local write"})

\* push: the content is replaced and the time re-fetched, updateTimestampOnly
\* throws (its writeFile fails)
PushStampFail ==
    /\ pc = "exec"
    /\ actions[idx].direction = "push"
    /\ LET action == actions[idx]
       IN  /\ RemoteFind(action.pageId) # {}
           /\ Replaced(action, PushRequests(action))
           /\ LET newNotionTimestamp == remote'[PageOf(action.pageId)].lastEdited
              IN  ExecStep(Result(action, "push", FALSE, Some("write error"), None),
                       << Call("readFullDoc", action.filePath, NoPage, 0, TRUE),
                          Call("replacePageContent", "", action.pageId, 0, TRUE),
                          Call("fetchPageLastEdited", "", action.pageId,
                               newNotionTimestamp, TRUE),
                          Call("updateTimestampOnly", action.filePath, NoPage,
                               newNotionTimestamp, FALSE) >>,
                       {"local write"})
    /\ UNCHANGED local

\* variant: the local marker is set to the remote time seen while planning
PushOk_stale ==
    /\ pc = "exec"
    /\ actions[idx].direction = "push"
    /\ LET action == actions[idx]
       IN  /\ RemoteFind(action.pageId) # {}
           /\ Replaced(action, PushRequests(action))
           /\ LET newNotionTimestamp == action.notionTimestamp
              IN  /\ local' = [local EXCEPT ![action.filePath] =
                                  updateTimestampOnly(@, newNotionTimestamp)]
                  /\ ExecStep(Result(action, "push", TRUE, None, Some(newNotionTimestamp)),
                       << Call("readFullDoc", action.filePath, NoPage, 0, TRUE),
                          Call("replacePageContent", "", action.pageId, 0, TRUE),
                          Call("fetchPageLastEdited", "", action.pageId,
                               newNotionTimestamp, TRUE),
                          Call("updateTimestampOnly", action.filePath, NoPage,
                               newNotionTimestamp, TRUE) >>,
                       {})

\* push: every call succeeds
PushOk ==
    /\ pc = "exec"
    /\ actions[idx].direction = "push"
    /\ LET action == actions[idx]
       IN  /\ RemoteFind(action.pageId) # {}
           /\ Replaced(action, PushRequests(action))
           /\ LET newNotionTimestamp == remote'[PageOf(action.pageId)].lastEdited
              IN  /\ local' = [local EXCEPT ![action.filePath] =
                                  updateTimestampOnly(@, newNotionTimestamp)]
                  /\ ExecStep(Result(action, "push", TRUE, None, Some(newNotionTimestamp)),
                       << Call("readFullDoc", action.filePath, NoPage, 0, TRUE),
                          Call("replacePageContent", "", action.pageId, 0, TRUE),
                          Call("fetchPageLastEdited", "", action.pageId,
                               newNotionTimestamp, TRUE),
                          Call("updateTimestampOnly", action.filePath, NoPage,
                               newNotionTimestamp, TRUE) >>,
                       {})

Next ==
    \/ \E dry \in BOOLEAN : Start(dry)
    \/ \E dry \in BOOLEAN : StartRaise(dry)
    \/ \E dry \in BOOLEAN : ConfigRaise(dry)
    \/ PlanOk
    \/ PlanReadFail
    \/ PlanFetchFail
    \/ ExecNone
    \/ PullFetchEmpty
    \/ PullListThrows
    \/ \E contentOk \in BOOLEAN, unreadable \in SUBSET Files, writeOk \in BOOLEAN :
          PullUpdate(contentOk, unreadable, writeOk)
    \/ PushReadFail
    \/ PushReplaceFail
    \/ PushRefetchFail
    \/ PushStampFail
    \/ PushOk

Spec == Init /\ [][Next]_vars

----------------------------------------------------------------------------
(* compareSyncTimestamps applied to inputs drawn from a bounded set *)

CmpTimes == {-1001, -1000, -1, 0, 1, 999, 1000, 1001, 1999, 2000, 2001, 3000}

InitCompare ==
    /\ Idle({"compare"})
    /\ cmpIn \in [local : {None} \cup {Some(t) : t \in CmpTimes}, notion : CmpTimes]
    /\ cmpOut = ""

Compare ==
    /\ cmpOut = ""
    /\ cmpOut' = compareSyncTimestamps(cmpIn.local, cmpIn.notion)
    /\ UNCHANGED << cmpIn >>
    /\ UNCHANGED << syncVars, replaceVars, roundTripVars, mapperVars, cacheVars,
                    gitVars, stampVars >>

NextCompare == Compare

SpecCompare == InitCompare /\ [][NextCompare]_vars

----------------------------------------------------------------------------
(* notion-client.ts: replacePageContent, request by request *)

\* most child blocks the page holds when replacePageContent is called
MaxExisting == 5

\* most blocks passed to replacePageContent
MaxBlocks == 201

\* number of blocks the service returns per page of the child listing
ListPageSize == 2

\* the child blocks of a page that holds n blocks, by block id
ExistingBlocks(n) == [k \in 1..n |-> 0 - k]

\* a blocks argument of n blocks
NewBlocks(n) == [k \in 1..n |-> k]

Request(op, arg) == [op |-> op, arg |-> arg]

InitReplace ==
    /\ Idle({"replace"})
    /\ rpPc = "list"
    /\ rpBefore \in {ExistingBlocks(n) : n \in 0..MaxExisting}
    /\ rpChildren = rpBefore
    /\ rpBlocks \in {NewBlocks(n) : n \in 0..MaxBlocks}
    /\ rpAllBlocks = << >>
    /\ rpCursor = 0
    /\ rpIndex = 0
    /\ rpLog = << >>

\* where replacePageContent continues when deleted of the existing blocks
\* are deleted: the delete loop, the append loop, or the return
AfterDeletes(existingBlocks, deleted) ==
    IF deleted < Len(existingBlocks) THEN "delete"
    ELSE IF 0 < Len(rpBlocks) THEN "append"
    ELSE "returned"

\* blocks.children.list: one page of the child listing from the cursor on
ListResponse(cursor) ==
    LET last == Min(cursor + ListPageSize, Len(rpChildren))
    IN  [results |-> SubSeq(rpChildren, cursor + 1, last),
         has_more |-> last < Len(rpChildren),
         next_cursor |-> IF last < Len(rpChildren) THEN Some(last) ELSE None]

\* variant: only the first page of the listing is requested
ListChildBlocks_once ==
    /\ rpPc = "list"
    /\ LET response == ListResponse(rpCursor)
           allBlocks == rpAllBlocks \o response.results
       IN  /\ rpAllBlocks' = allBlocks
           /\ rpCursor' = 0
           /\ rpPc' = AfterDeletes(allBlocks, 0)
           /\ rpLog' = Append(rpLog, Request("list", << rpCursor >>))
    /\ UNCHANGED << rpBefore, rpChildren, rpBlocks, rpIndex >>
    /\ UNCHANGED << syncVars, cmpVars, roundTripVars, mapperVars, cacheVars,
                    gitVars, stampVars >>

\* one iteration of the loop of listAllChildBlocks
ListChildBlocks ==
    /\ rpPc = "list"
    /\ LET response == ListResponse(rpCursor)
           allBlocks == rpAllBlocks \o response.results
           cursor == IF response.has_more /\ response.next_cursor # None
                     THEN Val(response.next_cursor)
                     ELSE 0
       IN  /\ rpAllBlocks' = allBlocks
           /\ rpCursor' = cursor
           /\ rpPc' = IF cursor # 0 THEN "list" ELSE AfterDeletes(allBlocks, 0)
           /\ rpLog' = Append(rpLog, Request("list", << rpCursor >>))
    /\ UNCHANGED << rpBefore, rpChildren, rpBlocks, rpIndex >>
    /\ UNCHANGED << syncVars, cmpVars, roundTripVars, mapperVars, cacheVars,
                    gitVars, stampVars >>

\* one iteration of the delete loop
DeleteBlock ==
    /\ rpPc = "delete"
    /\ LET block == rpAllBlocks[rpIndex + 1]
       IN  /\ rpChildren' = SelectSeq(rpChildren, LAMBDA b : b # block)
           /\ rpIndex' = IF rpIndex + 1 < Len(rpAllBlocks) THEN rpIndex + 1 ELSE 0
           /\ rpPc' = AfterDeletes(rpAllBlocks, rpIndex + 1)
           /\ rpLog' = Append(rpLog, Request("delete", << block >>))
    /\ UNCHANGED << rpBefore, rpBlocks, rpAllBlocks, rpCursor >>
    /\ UNCHANGED << syncVars, cmpVars, roundTripVars, mapperVars, cacheVars,
                    gitVars, stampVars >>

\* variant: the blocks are appended with one request
AppendBatch_whole ==
    /\ rpPc = "append"
    /\ rpChildren' = rpChildren \o rpBlocks
    /\ rpIndex' = Len(rpBlocks)
    /\ rpPc' = "returned"
    /\ rpLog' = Append(rpLog, Request("append", rpBlocks))
    /\ UNCHANGED << rpBefore, rpBlocks, rpAllBlocks, rpCursor >>
    /\ UNCHANGED << syncVars, cmpVars, roundTripVars, mapperVars, cacheVars,
                    gitVars, stampVars >>

\* one iteration of the append loop
AppendBatch ==
    /\ rpPc = "append"
    /\ LET batch == SubSeq(rpBlocks, rpIndex + 1, Min(rpIndex + batchSize, Len(rpBlocks)))
       IN  /\ rpChildren' = rpChildren \o batch
           /\ rpIndex' = rpIndex + batchSize
           /\ rpPc' = IF rpIndex + batchSize < Len(rpBlocks) THEN "append" ELSE "returned"
           /\ rpLog' = Append(rpLog, Request("append", batch))
    /\ UNCHANGED << rpBefore, rpBlocks, rpAllBlocks, rpCursor >>
    /\ UNCHANGED << syncVars, cmpVars, roundTripVars, mapperVars, cacheVars,
                    gitVars, stampVars >>

\* the request that is due fails: replacePageContent throws
RequestThrows ==
    /\ rpPc \in {"list", "delete", "append"}
    /\ rpPc' = "thrown"
    /\ UNCHANGED << rpBefore, rpChildren, rpBlocks, rpAllBlocks, rpCursor, rpIndex,
                    rpLog >>
    /\ UNCHANGED << syncVars, cmpVars, roundTripVars, mapperVars, cacheVars,
                    gitVars, stampVars >>

NextReplace ==
    \/ ListChildBlocks
    \/ DeleteBlock
    \/ AppendBatch
    \/ RequestThrows

SpecReplace == InitReplace /\ [][NextReplace]_vars

----------------------------------------------------------------------------
(* timestamp-utils.ts: replaceTimestampInContent followed by parseTimestamp *)

\* most lines of a content
MaxLines == 3

\* the lines a content is made of
RtLines ==
    {MarkerLine("iso", 1000), MarkerLine("date", 1), MarkerLine("bad", 0),
     OpenLine, CloseLine("date", 1), TagsLine("t1"), TextLine("x"), BlankLine}

RtContents == UNION {[1..n -> RtLines] : n \in 0..MaxLines}

RtDates == {0, 1500}

InitRoundTrip ==
    /\ Idle({"roundTrip"})
    /\ rtPc = "call"
    /\ rtContent \in RtContents
    /\ rtDate \in RtDates
    /\ rtOut = << >>
    /\ rtParsed = None

RoundTrip ==
    /\ rtPc = "call"
    /\ rtOut' = replaceTimestampInContent(rtContent, rtDate)
    /\ rtParsed' = parseTimestamp(rtOut')
    /\ rtPc' = "done"
    /\ UNCHANGED << rtContent, rtDate >>
    /\ UNCHANGED << syncVars, cmpVars, replaceVars, mapperVars, cacheVars,
                    gitVars, stampVars >>

NextRoundTrip == RoundTrip

SpecRoundTrip == InitRoundTrip /\ [][NextRoundTrip]_vars

----------------------------------------------------------------------------
(* doc-mapper.ts: calculateMappingConfidence and enhanceDocumentationFiles *)
(* applied to records and file lists drawn from bounded sets               *)

\* most records passed to enhanceDocumentationFiles
MaxDocs == 2

\* documentation paths: docs/api.md, docs/button.md, docs/components/api.md,
\* docs/components/button.md, docs/other-gen.md, docs/renderButton.md
Doc ==
    [api |-> << Seg(Nm.docs, ""), Seg(Nm.api, "md") >>,
     button |-> << Seg(Nm.docs, ""), Seg(Nm.button, "md") >>,
     componentsApi |-> << Seg(Nm.docs, ""), Seg(Nm.components, ""), Seg(Nm.api, "md") >>,
     componentsButton |-> << Seg(Nm.docs, ""), Seg(Nm.components, ""), Seg(Nm.button, "md") >>,
     otherGen |-> << Seg(Nm.docs, ""), Seg(Nm.otherGen, "md") >>,
     renderButton |-> << Seg(Nm.docs, ""), Seg(Nm.renderButton, "md") >>]

\* code files: src/components/Button.tsx, src/gen.ts, src/other.ts and
\* src/.env, a file without base name
File ==
    [button |-> << Seg(Nm.src, ""), Seg(Nm.components, ""), Seg(Nm.Button, "tsx") >>,
     gen |-> << Seg(Nm.src, ""), Seg(Nm.gen, "ts") >>,
     other |-> << Seg(Nm.src, ""), Seg(Nm.other, "ts") >>,
     env |-> << Seg(Nm.src, ""), Seg(<< >>, "env") >>]

\* an item of a content: a path in a code span (kind "code"), name() in a
\* code span (kind "call"), other words (kind "text")
Item(kind, path, name) == [kind |-> kind, path |-> path, name |-> name]

DocumentationFile(filePath, content, linkedCodeFiles, mappingConfidence) ==
    [filePath |-> filePath, content |-> content, linkedCodeFiles |-> linkedCodeFiles,
     mappingConfidence |-> mappingConfidence]

MpDocs ==
    LET contents ==
            {<< Item("text", << >>, << >>) >>,
             << Item("text", << >>, << >>), Item("code", File.gen, << >>),
                Item("call", << >>, Nm.gen) >>,
             << Item("code", File.button, << >>), Item("code", File.button, << >>) >>,
             << Item("call", << >>, Nm.renderButton) >>,
             << Item("code", File.button, << >>), Item("call", << >>, Nm.renderButton),
                Item("code", File.env, << >>) >>}
        carried == {<< << >>, 0 >>, << << File.button >>, 85 >>, << << File.other >>, 50 >>}
    IN  {DocumentationFile(p, c, l[1], l[2]) :
            p \in {Doc.api, Doc.button, Doc.componentsApi, Doc.componentsButton,
                   Doc.otherGen, Doc.renderButton},
            c \in contents, l \in carried}

\* lists of one to MaxDocs records
MpDocLists ==
    LET more == {DocumentationFile(Doc.button, << Item("text", << >>, << >>) >>,
                                   << File.gen >>, 90),
                 DocumentationFile(Doc.api, << Item("code", File.other, << >>) >>,
                                   << >>, 0)}
    IN  UNION {{<< d >> \o rest : d \in MpDocs, rest \in [1..(n - 1) -> more]} :
                  n \in 1..MaxDocs}

MpAvailable ==
    {<< >>,
     << File.gen, File.other >>,
     << File.button >>,
     << File.button, File.gen, File.button >>,
     << File.other, File.env, File.button, File.gen >>}

InitMapper ==
    /\ Idle({"mapper"})
    /\ mpPc = "call"
    /\ mpDocs \in MpDocLists
    /\ mpAvailable \in MpAvailable
    /\ mpCandidate \in {File.button, File.gen, File.other, File.env}
    /\ mpScore = 0
    /\ mpOut = << >>

\* calculateMappingConfidence(documentationFiles[0], codeFile)
Score ==
    /\ mpPc = "call"
    /\ mpScore' = calculateMappingConfidence(mpDocs[1], mpCandidate)
    /\ mpPc' = "scored"
    /\ UNCHANGED << mpDocs, mpAvailable, mpCandidate, mpOut >>
    /\ UNCHANGED << syncVars, cmpVars, replaceVars, roundTripVars, cacheVars,
                    gitVars, stampVars >>

\* enhanceDocumentationFiles(documentationFiles, availableCodeFiles)
Enhance ==
    /\ mpPc = "call"
    /\ mpOut' = enhanceDocumentationFiles(mpDocs, mpAvailable)
    /\ mpPc' = "enhanced"
    /\ UNCHANGED << mpDocs, mpAvailable, mpCandidate, mpScore >>
    /\ UNCHANGED << syncVars, cmpVars, replaceVars, roundTripVars, cacheVars,
                    gitVars, stampVars >>

NextMapper ==
    \/ Score
    \/ Enhance

SpecMapper == InitMapper /\ [][NextMapper]_vars

----------------------------------------------------------------------------
(* doc-mapper.ts: the mapping cache.  A call is logged as a record         *)
(* [name, table, path]: name "cache" with the table passed, or name        *)
(* "invalidate" with the optional path passed.                             *)

\* most cacheMappingResults and invalidateMappingCache calls in one behaviour
MaxOps == 4

CachePaths == {Doc.api, Doc.button}

\* the tables passed to cacheMappingResults
McTables ==
    {Doc.api :> << >>,
     Doc.api :> << File.gen >>,
     Doc.button :> << File.button >>,
     (Doc.api :> << File.other, File.gen >>) @@ (Doc.button :> << >>)}

InitCache == Idle({})

cacheMappingResults(mappingTable) ==
    /\ Len(mcLog) < MaxOps
    /\ mappingCache' = [p \in DOMAIN mappingCache \cup DOMAIN mappingTable |->
                           IF p \in DOMAIN mappingTable THEN mappingTable[p]
                           ELSE mappingCache[p]]
    /\ mcLog' = Append(mcLog, [name |-> "cache", table |-> mappingTable, path |-> None])
    /\ UNCHANGED << mcAsked, mcGot >>
    /\ UNCHANGED << syncVars, cmpVars, replaceVars, roundTripVars, mapperVars,
                    gitVars, stampVars >>

\* variant: an empty list counts as no entry
getCachedMappingResults_nonempty(docFilePath) ==
    /\ mcAsked' = Some(docFilePath)
    /\ mcGot' = IF docFilePath \in DOMAIN mappingCache /\ mappingCache[docFilePath] # << >>
                THEN Some(mappingCache[docFilePath])
                ELSE None
    /\ UNCHANGED << mappingCache, mcLog >>
    /\ UNCHANGED << syncVars, cmpVars, replaceVars, roundTripVars, mapperVars,
                    gitVars, stampVars >>

\* the result is None for null, else the list
getCachedMappingResults(docFilePath) ==
    /\ mcAsked' = Some(docFilePath)
    /\ mcGot' = IF docFilePath \in DOMAIN mappingCache
                THEN Some(mappingCache[docFilePath])
                ELSE None
    /\ UNCHANGED << mappingCache, mcLog >>
    /\ UNCHANGED << syncVars, cmpVars, replaceVars, roundTripVars, mapperVars,
                    gitVars, stampVars >>

\* docFilePath is None when the argument is left out
invalidateMappingCache(docFilePath) ==
    /\ Len(mcLog) < MaxOps
    /\ mappingCache' = IF docFilePath = None THEN << >>
                       ELSE [p \in DOMAIN mappingCache \ {Val(docFilePath)} |-> mappingCache[p]]
    /\ mcLog' = Append(mcLog, [name |-> "invalidate", table |-> << >>, path |-> docFilePath])
    /\ UNCHANGED << mcAsked, mcGot >>
    /\ UNCHANGED << syncVars, cmpVars, replaceVars, roundTripVars, mapperVars,
                    gitVars, stampVars >>

NextCache ==
    \/ \E mappingTable \in McTables : cacheMappingResults(mappingTable)
    \/ \E docFilePath \in CachePaths : getCachedMappingResults(docFilePath)
    \/ \E docFilePath \in {None} \cup {Some(p) : p \in CachePaths} :
          invalidateMappingCache(docFilePath)

SpecCache == InitCache /\ [][NextCache]_vars

----------------------------------------------------------------------------
(* local-docs-reader.ts: extractBodyContent applied to the rtContent of a *)
(* bounded set of texts; rtOut is what it returns                          *)

InitBody ==
    /\ Idle({"roundTrip"})
    /\ rtPc = "call"
    /\ rtContent \in UNION {[1..n -> {IdLine("eq", << "a", "1" >>),
                                      IdLine("alt", << "b", "1" >>),
                                      TitleLine("Old"), MarkerLine("iso", 1000),
                                      TagsLine("t1"), TextLine("x"), BlankLine}] :
                             n \in 0..MaxLines}
    /\ rtDate = 0
    /\ rtOut = << >>
    /\ rtParsed = None

ExtractBody ==
    /\ rtPc = "call"
    /\ rtOut' = extractBodyContent(rtContent)
    /\ rtPc' = "done"
    /\ UNCHANGED << rtContent, rtDate, rtParsed >>
    /\ UNCHANGED << syncVars, cmpVars, replaceVars, mapperVars, cacheVars,
                    gitVars, stampVars >>

SpecBody == InitBody /\ [][ExtractBody]_vars

----------------------------------------------------------------------------
(* commands/stamp.ts: stampCommand, one file of modifiedFiles at a time *)

InitStamp ==
    /\ Idle({"stamp"})
    /\ stPc = "call"
    /\ stFs \in [Files ->
                  {<< TitleLine("Old"), BlankLine, TextLine("x") >>,
                   << TitleLine("Old"), MarkerLine("iso", 1000), TextLine("x") >>,
                   << MarkerLine("iso", 1500), BlankLine, TagsLine("t1") >>,
                   << MarkerLine("date", 1), TextLine("x"), MarkerLine("iso", 1000) >>,
                   << OpenLine, BlankLine, TagsLine("t1"), TextLine("x") >>,
                   << OpenLine, MarkerLine("iso", 1000), TextLine("x") >>}]
    /\ stBefore = stFs
    /\ stModified = << >>
    /\ stIndex = 0
    /\ stamped = 0
    /\ stNow \in {1500, 2500}
    /\ stLog = << >>

\* stampCommand up to the loop; modified is what getModifiedMarkdownFiles
\* returns: the modified markdown files git status lists, [] when git fails
StampStart(modified) ==
    /\ stPc = "call"
    /\ stModified' = modified
    /\ stIndex' = 1
    /\ stPc' = IF modified = << >> THEN "done" ELSE "loop"
    /\ UNCHANGED << stFs, stBefore, stamped, stNow, stLog >>
    /\ UNCHANGED << syncVars, cmpVars, replaceVars, roundTripVars, mapperVars, cacheVars,
                    gitVars >>

\* one iteration of the loop; readOk and writeOk tell whether readFile and
\* writeFile succeed
StampFile(readOk, writeOk) ==
    /\ stPc = "loop"
    /\ LET filePath == stModified[stIndex]
           content == stFs[filePath]
           updated == replaceTimestampInContent(content, stNow)
       IN  IF ~ readOk
           THEN /\ stLog' = Append(stLog, "failed")
                /\ UNCHANGED << stFs, stamped >>
           ELSE IF updated = content
           THEN /\ stLog' = Append(stLog, "skipped")
                /\ UNCHANGED << stFs, stamped >>
           ELSE IF ~ writeOk
           THEN /\ stLog' = Append(stLog, "failed")
                /\ UNCHANGED << stFs, stamped >>
           ELSE /\ stFs' = [stFs EXCEPT ![filePath] = updated]
                /\ stamped' = stamped + 1
                /\ stLog' = Append(stLog, "stamped")
    /\ stIndex' = stIndex + 1
    /\ stPc' = IF stIndex < Len(stModified) THEN "loop" ELSE "done"
    /\ UNCHANGED << stBefore, stModified, stNow >>
    /\ UNCHANGED << syncVars, cmpVars, replaceVars, roundTripVars, mapperVars, cacheVars,
                    gitVars >>

NextStamp ==
    \/ \E modified \in {<< >>, << "a.md" >>, << "b.md" >>, << "a.md", "b.md" >>,
                         << "b.md", "a.md" >>} : StampStart(modified)
    \/ \E readOk, writeOk \in BOOLEAN : StampFile(readOk, writeOk)

SpecStamp == InitStamp /\ [][NextStamp]_vars

----------------------------------------------------------------------------
(* local-docs-reader.ts: updateLocalDocs called with one remote document *)

\* number of updateLocalDocs calls in one behaviour
MaxUpdates == 2

InitUpdate ==
    /\ Idle({"sync"})
    /\ \E ids \in [Files -> {<< "a", "1" >>, << "a", "-", "1" >>, << "b", "-", "1" >>,
                               << "b", "1" >>, << >>}],
          fmt \in {"eq", "alt"},
          r \in InitialRemote, id2 \in {<< "b", "-", "1" >>, << "a", "1" >>} :
          InitSync([f \in Files |->
                       LocalDoc(IF ids[f] = << >> THEN << >>
                                ELSE << IdLine(fmt, ids[f]), BlankLine >>,
                                << MarkerLine("iso", 1000), BlankLine >>,
                                << TextLine("x") >>)],
                   [r EXCEPT !.P2.id = id2])

\* updateLocalDocs([notionDoc]) for the NotionDoc of page p; writeOk tells
\* whether the writeFile of the update succeeds
UpdateLocalDocs(p, writeOk) ==
    /\ Len(calls) < MaxUpdates
    /\ LET notionDoc == parseNotionPage(remote[p], TRUE)
           docs == readLocalDocs(local, {})
           k == FindLocalDoc(docs, notionDoc)
           path == IF k # 0 THEN docs[k].filePath ELSE ""
       IN  /\ local' = IF k # 0 /\ writeOk
                       THEN [local EXCEPT ![path] =
                               buildUpdatedContent(extractPageIdLine(local[path]), notionDoc)]
                       ELSE local
           /\ calls' = Append(calls, Call("updateLocalDocs", path, p,
                                          notionDoc.lastModified, k # 0 /\ writeOk))
    /\ prev' = local
    /\ UNCHANGED << remote, clock, pc, run, dryRun, raised, localDocs, idx, actions,
                    results, local0, remote0, faulted, excluded, execFaults, lastReal,
                    apiKey, pushDue, driverVars >>

SpecUpdate == InitUpdate /\ [][\E p \in Pages, writeOk \in BOOLEAN : UpdateLocalDocs(p, writeOk)]_vars

----------------------------------------------------------------------------
(* git-analyzer.ts: getCodeChanges, one git invocation at a time.  An      *)
(* error message is the set of the phrases it includes; a status line is   *)
(* a record [status, fields]: the characters before the first tab and the  *)
(* tab-separated fields after it; a path is a sequence of segments with    *)
(* names given as strings; a diff is the sequence of the leading           *)
(* characters of its lines.                                                *)

\* most lines of the name-status listing
MaxStatusLines == 2

InitGit ==
    /\ Idle({"git"})
    /\ gaPc = "list"
    /\ gaBranches \in [baseBranch : {"main"}, targetBranch : {"feature", "HEAD"}]
    /\ gaLines = << >>
    /\ gaIndex = 0
    /\ gaChanges = << >>
    /\ gaFailed = None
    /\ gaThrown = None

parseGitStatusLine(statusLine) ==
    LET parts == << statusLine.status >> \o statusLine.fields
        status == parts[1]
        filePath == IF status # << >> /\ status[1] = "R" /\ Len(parts) >= 3
                    THEN parts[3] ELSE parts[2]
    IN  IF Len(parts) < 2 THEN [thrown |-> TRUE, changeType |-> "", filePath |-> << >>]
        ELSE IF status = << >> \/ status[1] \notin {"A", "M", "D", "R"}
        THEN [thrown |-> TRUE, changeType |-> "", filePath |-> << >>]
        ELSE [thrown |-> FALSE,
              changeType |-> CASE status[1] = "A" -> "added"
                               [] status[1] = "M" -> "modified"
                               [] status[1] = "D" -> "deleted"
                               [] status[1] = "R" -> "modified",
              filePath |-> filePath]

isSourceCodeFile(filePath) ==
    LET last == filePath[Len(filePath)]
        names == {filePath[k].name : k \in 1..Len(filePath)}
    IN  /\ filePath # << >>
        /\ "__tests__" \notin names
        /\ last.ext \notin {"test.ts", "test.js", "spec.ts", "spec.js"}
        /\ "node_modules" \notin names
        /\ << last.name, last.ext >> \notin
               {<< "package", "json" >>, << "tsconfig", "json" >>, << "", "gitignore" >>,
                << "README", "md" >>, << "LICENSE", "" >>, << "", "env" >>}
        /\ last.ext \in {"ts", "js", "d.ts"}

\* the outer catch of getCodeChanges: the message of the error it throws
\* for a caught error with this message
CaughtGitError(message, branches) ==
    IF "bad revision" \in message
    THEN {"Branch '"
          \o (IF branches.baseBranch \in message THEN branches.baseBranch
              ELSE branches.targetBranch)
          \o "' does not exist"}
    ELSE IF "not a git repository" \in message
    THEN {"Git repository not found or not initialized"}
    ELSE IF "does not have any commits" \in message
    THEN {"Repository has no commits"}
    ELSE message

\* git diff --name-status: output is None when execSync throws message
GitNameStatus(output, message) ==
    /\ gaPc = "list"
    /\ IF output = None
       THEN /\ gaFailed' = Some([command |-> "name-status", message |-> message])
            /\ gaThrown' = Some(CaughtGitError(message, gaBranches))
            /\ gaPc' = "thrown"
            /\ UNCHANGED << gaLines, gaIndex >>
       ELSE /\ gaLines' = Val(output)
            /\ gaIndex' = 1
            /\ gaPc' = IF Val(output) = << >> THEN "returned" ELSE "loop"
            /\ UNCHANGED << gaFailed, gaThrown >>
    /\ UNCHANGED << gaBranches, gaChanges >>
    /\ UNCHANGED << syncVars, cmpVars, replaceVars, roundTripVars, mapperVars, cacheVars,
                    stampVars >>

\* one iteration of the loop over the status lines; diffOutput is None when
\* the execSync of the per-file diff throws message.  Whatever is thrown
\* inside the iteration is replaced by 'Failed to parse git status output'
GitStatusLine(diffOutput, message) ==
    /\ gaPc = "loop"
    /\ LET parsed == parseGitStatusLine(gaLines[gaIndex])
           more == IF gaIndex < Len(gaLines) THEN "loop" ELSE "returned"
           failed == CaughtGitError({"Failed to parse git status output"}, gaBranches)
       IN  IF parsed.thrown
           THEN /\ gaThrown' = Some(failed)
                /\ gaPc' = "thrown"
                /\ UNCHANGED << gaFailed, gaChanges >>
           ELSE IF ~ isSourceCodeFile(parsed.filePath)
           THEN /\ gaPc' = more
                /\ UNCHANGED << gaFailed, gaThrown, gaChanges >>
           ELSE IF diffOutput = None
           THEN /\ gaFailed' = Some([command |-> "diff", message |-> message])
                /\ gaThrown' = Some(failed)
                /\ gaPc' = "thrown"
                /\ UNCHANGED gaChanges
           ELSE /\ gaChanges' = Append(gaChanges,
                                   [filePath |-> parsed.filePath,
                                    changeType |-> parsed.changeType,
                                    linesAdded |-> Len(SelectSeq(Val(diffOutput),
                                                                 LAMBDA l : l = "+")),
                                    linesRemoved |-> Len(SelectSeq(Val(diffOutput),
                                                                   LAMBDA l : l = "-")),
                                    diffContent |-> Val(diffOutput),
                                    isSourceCode |-> TRUE])
                /\ gaPc' = more
                /\ UNCHANGED << gaFailed, gaThrown >>
    /\ gaIndex' = gaIndex + 1
    /\ UNCHANGED << gaBranches, gaLines >>
    /\ UNCHANGED << syncVars, cmpVars, replaceVars, roundTripVars, mapperVars, cacheVars,
                    stampVars >>

NextGit ==
    LET messages == {{"bad revision", "main"}, {"bad revision", "feature"},
                     {"bad revision", "HEAD"}, {"not a git repository"},
                     {"does not have any commits", "main"}, {"ENOBUFS"}}
        statusLines ==
            {[status |-> << "M" >>, fields |-> << << Seg("src", ""), Seg("a", "ts") >> >>],
             [status |-> << "A" >>, fields |-> << << Seg("README", "md") >> >>],
             [status |-> << "R", "9" >>,
              fields |-> << << Seg("old", "ts") >>, << Seg("src", ""), Seg("b", "js") >> >>],
             [status |-> << "D" >>, fields |-> << << Seg("src", ""), Seg("a", "test.ts") >> >>],
             [status |-> << "i", "n", "v" >>, fields |-> << >>]}
        diffs == {<< >>, << "---", "+++", "@@", "-", "+", "+", " " >>}
    IN  \/ \E output \in {None} \cup {Some(ls) : ls \in UNION {[1..n -> statusLines] :
                                                              n \in 0..MaxStatusLines}},
              message \in messages :
              /\ output # None => message = {"ENOBUFS"}
              /\ GitNameStatus(output, message)
        \/ \E diffOutput \in {None} \cup {Some(d) : d \in diffs}, message \in messages :
              /\ diffOutput # None => message = {"ENOBUFS"}
              /\ GitStatusLine(diffOutput, message)

SpecGit == InitGit /\ [][NextGit]_vars


----------------------------------------------------------------------------
(* Properties *)

Abs(x) == IF x < 0 THEN 0 - x ELSE x

\* a point in time truncated to whole seconds
Seconds(t) == t \div 1000

PlanningDone == run >= 1 /\ pc \in {"exec", "done"} /\ ~ raised

\* C1: every SyncAction of the plan has exactly one direction: pull iff its
\* localTimestamp is absent or its notionTimestamp, truncated to whole
\* seconds, is strictly later than the truncated localTimestamp; push iff the
\* localTimestamp is present and strictly later after truncation; none iff
\* both are present and equal after truncation.
C1_PlanDirection ==
    \A i \in 1..Len(actions) :
        LET a == actions[i]
            absent == a.localTimestamp = None
        IN  /\ a.direction \in {"pull", "push", "none"}
            /\ a.direction = "pull" <=>
                   (absent \/ Seconds(a.notionTimestamp) > Seconds(Val(a.localTimestamp)))
            /\ a.direction = "push" <=>
                   (~ absent /\ Seconds(Val(a.localTimestamp)) > Seconds(a.notionTimestamp))
            /\ a.direction = "none" <=>
                   (~ absent /\ Seconds(Val(a.localTimestamp)) = Seconds(a.notionTimestamp))

\* a plan with a pull for a document without local time and a none for two
\* times that differ within one second
C1_Witness ==
    /\ PlanningDone
    /\ \E i, j \in 1..Len(actions) :
        /\ actions[i].localTimestamp = None
        /\ actions[i].direction = "pull"
        /\ actions[j].direction = "none"
        /\ Val(actions[j].localTimestamp) # actions[j].notionTimestamp

Compared == cmpOut # ""

SubSecond == IsSome(cmpIn.local) /\ Abs(Val(cmpIn.local) - cmpIn.notion) < 1000

\* C2 as stated: a present local time and a remote time less than 1000 ms
\* apart always compare as none.
C2_SubSecondNone ==
    (Compared /\ SubSecond) => cmpOut = "none"

\* C2 amended: two times less than 1000 ms apart compare as none exactly when
\* they fall into the same whole second; when a second boundary lies between
\* them the later one wins (pull for a later remote, push for a later local).
C2_SameSecondNone ==
    (Compared /\ SubSecond) =>
        LET l == Val(cmpIn.local)
            n == cmpIn.notion
        IN  /\ Seconds(l) = Seconds(n) => cmpOut = "none"
            /\ Seconds(l) < Seconds(n) => cmpOut = "pull"
            /\ Seconds(l) > Seconds(n) => cmpOut = "push"

\* two different times of the same second were compared
C2_Witness ==
    /\ Compared
    /\ SubSecond
    /\ Val(cmpIn.local) # cmpIn.notion
    /\ cmpOut = "none"

\* C3: when a run without dry-run is directly followed by a second run and no
\* collaborator call failed, every action planned by the second run has
\* direction none.
C3_Idempotent ==
    (PlanningDone /\ lastReal /\ ~ faulted) =>
        \A i \in 1..Len(actions) : actions[i].direction = "none"

RECURSIVE Planned(_)
\* the local documents from index i on whose planning iteration did not throw
Planned(i) ==
    IF i > Len(localDocs) THEN << >>
    ELSE (IF i \in excluded THEN << >> ELSE << localDocs[i] >>) \o Planned(i + 1)

\* the plan holds one action per document of docs, in the same order
PlanCovers(docs) ==
    /\ Len(actions) = Len(docs)
    /\ \A k \in 1..Len(docs) :
        /\ actions[k].pageId = docs[k].pageId
        /\ actions[k].filePath = docs[k].filePath
        /\ actions[k].fileName = docs[k].fileName

\* a call that wrote the local file f
WroteFile(c, f) ==
    c.op \in {"updateLocalDocs", "updateTimestampOnly"} /\ c.ok /\ c.file = f

\* C4: when the planning of a document fails the run does not raise, the plan
\* holds exactly one action for every other local document in listing order,
\* and the run executes nothing for the excluded document: it records no
\* result for it and writes nothing to its file.
C4_PlanningIsolation ==
    /\ excluded # {} => ~ raised
    /\ PlanningDone => PlanCovers(Planned(1))
    /\ \A i \in excluded :
        /\ \A k \in 1..Len(results) : results[k].fileName # localDocs[i].fileName
        /\ \A k \in 1..Len(calls) : ~ WroteFile(calls[k], localDocs[i].filePath)
        /\ local[localDocs[i].filePath] = local0[localDocs[i].filePath]

\* the kinds of failing calls C5 is about
C5Kinds == {"remote fetch", "remote write", "local write"}

ExecutionDone == run >= 1 /\ pc = "done" /\ ~ dryRun /\ ~ raised

\* C5: when a remote fetch, a remote write or a local file write fails while
\* an action is executed, the result recorded for the action has
\* success = false and carries an error message; every action of the plan
\* is executed all the same.
C5_FailuresRecorded ==
    /\ \A i \in 1..Len(results) :
        execFaults[i] \cap C5Kinds # {} =>
            ~ results[i].success /\ IsSome(results[i].error)
    /\ ExecutionDone => Len(results) = Len(actions)

\* C6: executeActions does not raise and returns one result per action, in
\* plan order, with the pageId, fileName and direction of the action, whatever
\* calls fail.
C6_OneResultPerAction ==
    /\ pc = "exec" => ~ raised /\ Len(results) = idx - 1
    /\ ExecutionDone => Len(results) = Len(actions)
    /\ Len(results) <= Len(actions)
    /\ \A i \in 1..Len(results) :
        /\ results[i].pageId = actions[i].pageId
        /\ results[i].fileName = actions[i].fileName
        /\ results[i].direction = actions[i].direction

\* executeActions has returned two results, one of a failed action followed
\* by one of an action that was executed after the failure
C6_Witness ==
    /\ ExecutionDone
    /\ Len(results) = 2
    /\ ~ results[1].success
    /\ results[2].success
    /\ results[2].direction # "none"

\* C7: every SyncResult has an error iff success is false, and a
\* synchronizedTimestamp iff success is true and the direction is pull or push.
C7_ResultWellFormed ==
    \A i \in 1..Len(results) :
        LET r == results[i]
        IN  /\ IsSome(r.error) <=> ~ r.success
            /\ IsSome(r.synchronizedTimestamp) <=>
                   (r.success /\ r.direction \in {"pull", "push"})

\* the results hold a failure and a success of direction none
C7_Witness ==
    /\ \E i \in 1..Len(results) : ~ results[i].success
    /\ \E i \in 1..Len(results) : results[i].success /\ results[i].direction = "none"

\* calls the planning phase makes
PlanningOps == {"readLocalDocs", "readFullDoc", "fetchPageLastEdited"}

\* C8: in a dry run the plan is computed for every listed document, but no
\* page content is fetched or replaced, no local file is written, no
\* SyncResult is produced, and local files and remote pages stay as they were
\* when the run started.
C8_DryRunNoEffect ==
    (run >= 1 /\ dryRun) =>
        /\ local = local0
        /\ remote = remote0
        /\ results = << >>
        /\ \A k \in 1..Len(calls) : calls[k].op \in PlanningOps
        /\ pc # "exec"
        /\ (pc = "done" /\ ~ raised) => PlanCovers(Planned(1))

\* a dry run has ended with a plan that holds a pull and a push
C8_Witness ==
    /\ run >= 1
    /\ dryRun
    /\ pc = "done"
    /\ \E i, j \in 1..Len(actions) :
        actions[i].direction = "pull" /\ actions[j].direction = "push"

\* the action executed last was a push that succeeded
JustPushed ==
    /\ run >= 1
    /\ results # << >>
    /\ results[Len(results)].direction = "push"
    /\ results[Len(results)].success

LastAction == actions[Len(results)]

\* C9: a push replaces the remote content by the blocks of the local body,
\* then re-fetches the remote time, then writes the local marker: every
\* updateTimestampOnly call directly follows a successful fetchPageLastEdited
\* of the same value, which directly follows the completed replacePageContent
\* of the same page; the marker written and the synchronizedTimestamp recorded
\* are the remote time after the replacement.
C9_PushProtocol ==
    /\ \A k \in 1..Len(calls) :
        calls[k].op = "updateTimestampOnly" =>
            /\ k > 3
            /\ calls[k - 1].op = "fetchPageLastEdited"
            /\ calls[k - 1].ok
            /\ calls[k - 1].t = calls[k].t
            /\ calls[k - 2].op = "replacePageContent"
            /\ calls[k - 2].ok
            /\ calls[k - 2].page = calls[k - 1].page
            /\ calls[k - 3].op = "readFullDoc"
            /\ calls[k - 3].file = calls[k].file
    /\ JustPushed =>
        LET page == remote[PageOf(LastAction.pageId)]
        IN  /\ page.blocks = convertToBlocks(extractBodyContent(prev[LastAction.filePath]))
            /\ calls[Len(calls)].op = "updateTimestampOnly"
            /\ calls[Len(calls)].t = page.lastEdited
            /\ parseTimestamp(local[LastAction.filePath]) = Some(page.lastEdited)
            /\ results[Len(results)].synchronizedTimestamp = Some(page.lastEdited)

\* a push has just succeeded whose re-fetched time differs from the remote
\* time seen while planning
C9_Witness ==
    /\ JustPushed
    /\ results[Len(results)].synchronizedTimestamp # Some(LastAction.notionTimestamp)
    /\ remote[PageOf(LastAction.pageId)].blocks # remote0[PageOf(LastAction.pageId)].blocks

JustPulled ==
    /\ run >= 1
    /\ results # << >>
    /\ results[Len(results)].direction = "pull"
    /\ calls[Len(calls)].op = "updateLocalDocs"
    /\ calls[Len(calls)].ok

\* the file the last updateLocalDocs wrote
PulledFile == calls[Len(calls)].file

\* the text of the tags line of a file, '' without one
TagsOf(content) ==
    LET i == Lowest({k \in 1..Len(content) : content[k].kind = "tags"})
    IN  IF i = 0 THEN "" ELSE content[i].text

\* C11: after a pull has overwritten a local file, the page identifier
\* embedded in the file is the one the file held before the pull, written in
\* pageId= form, and title, tags, timestamp and body of the file are those
\* of the remote document (the placeholder body for an empty document).
C11_PullPreservesId ==
    JustPulled =>
        LET f == PulledFile
            page == remote[PageOf(LastAction.pageId)]
        IN  /\ extractPageId(local[f]) = extractPageId(prev[f])
            /\ \E k \in 1..Len(local[f]) : IsEqIdMatch(local[f][k])
            /\ extractTitleFromContent(local[f]) = page.title
            /\ TagsOf(local[f]) = (IF Len(page.tags) > 0 THEN JoinTags(page.tags) ELSE "")
            /\ parseTimestamp(local[f]) = Some(page.lastEdited)
            /\ extractBodyContent(local[f]) =
                   (IF Trim(page.blocks) # << >> THEN Trim(page.blocks)
                    ELSE << NoContentLine >>)

\* the action executed last was a pull that is recorded as successful
PullRecorded ==
    /\ run >= 1
    /\ results # << >>
    /\ results[Len(results)].direction = "pull"
    /\ results[Len(results)].success

\* C12: after a pull that is recorded as successful the timestamp marker of
\* the local file of the action equals the lastModified of the remote
\* document, and the synchronizedTimestamp of the result is that same value.
C12_PullTimestamp ==
    PullRecorded =>
        LET page == remote[PageOf(LastAction.pageId)]
        IN  /\ parseTimestamp(local[LastAction.filePath]) = Some(page.lastEdited)
            /\ results[Len(results)].synchronizedTimestamp = Some(page.lastEdited)

\* C13: the execution of an action of direction none records a result with
\* success = true (no error, no synchronizedTimestamp) for it and does
\* nothing else: it makes no collaborator call (no fetch of page content, no
\* content replacement, no local read or write) and leaves local files,
\* remote pages and the remote clock as they are.
C13_NoneNoEffect ==
    [][(pc = "exec" /\ actions[idx].direction = "none") =>
          /\ results' = Append(results,
                 [pageId |-> actions[idx].pageId,
                  fileName |-> actions[idx].fileName,
                  direction |-> "none",
                  success |-> TRUE,
                  error |-> None,
                  synchronizedTimestamp |-> None])
          /\ calls' = calls
          /\ local' = local
          /\ remote' = remote
          /\ clock' = clock]_vars

\* a none action has just been executed, after an action of the same run that
\* wrote a local file
C13_Witness ==
    /\ run >= 1
    /\ Len(results) >= 2
    /\ results[Len(results)].direction = "none"
    /\ results[Len(results)].success
    /\ results[Len(results) - 1].direction # "none"
    /\ local # local0

\* the elements of a list
Range(s) == {s[k] : k \in 1..Len(s)}

\* C14: when replacePageContent returns, the child blocks of the page are
\* exactly the given blocks in the given order; every block that was a child
\* before the call, on whatever page of the listing, has been deleted; and
\* every append request comes after the delete requests of all those blocks
\* (no listing and no deletion follows an append).
C14_FullReplace ==
    /\ rpPc = "returned" =>
        /\ rpChildren = rpBlocks
        /\ \A b \in Range(rpBefore) :
            /\ b \notin Range(rpChildren)
            /\ \E k \in 1..Len(rpLog) : rpLog[k] = Request("delete", << b >>)
    /\ \A k \in 1..Len(rpLog) :
        rpLog[k].op = "append" =>
            /\ \A b \in Range(rpBefore) :
                \E j \in 1..(k - 1) : rpLog[j] = Request("delete", << b >>)
            /\ \A j \in k..Len(rpLog) : rpLog[j].op = "append"

\* replacePageContent has returned after a listing of several pages and
\* an append of several batches
C14_Witness ==
    /\ rpPc = "returned"
    /\ Len(rpBefore) > ListPageSize
    /\ Len(rpBlocks) > batchSize
    /\ rpChildren = rpBlocks

\* C15: for every content that holds a timestamp marker and every date d,
\* parseTimestamp(replaceTimestampInContent(content, d)) is d; for every
\* content without a marker replaceTimestampInContent returns the content
\* as it is, with no marker in it.
C15_RoundTrip ==
    rtPc = "done" =>
        /\ TimestampMatch(rtContent) # 0 => rtParsed = Some(rtDate)
        /\ TimestampMatch(rtContent) = 0 =>
              rtOut = rtContent /\ TimestampMatch(rtOut) = 0

\* the floors of the evidence classes that trigger for a document and a
\* candidate file
EvidenceFloors(docFile, codeFile) ==
    {fl \in {90, 85, 50, 30, 15} :
        \/ fl = 90 /\ codeFile \in Range(extractFilePathReferences(docFile.content))
        \/ fl = 85 /\ codeFile \in Range(docFile.linkedCodeFiles)
        \/ fl = 50 /\ FunctionNameMatches(docFile, codeFile)
        \/ fl = 30 /\ FilenameMatches(docFile.filePath, codeFile)
        \/ fl = 15 /\ hasMatchingDirectoryStructure(extractPathParts(docFile.filePath),
                                                    extractPathParts(codeFile))}

\* the largest member of a set of naturals, 0 for the empty set
Greatest(S) == IF S = {} THEN 0 ELSE CHOOSE m \in S : \A x \in S : x <= m

\* C16: calculateMappingConfidence returns the largest floor among the
\* evidence classes that trigger (0.9 reference, 0.85 already linked, 0.5
\* function name, 0.3 filename, 0.15 directory); it is 0 exactly when no
\* class triggers and lies between 0 and 1 (in hundredths: 0..100)
C16_ConfidenceIsMax ==
    mpPc = "scored" =>
        /\ mpScore = Greatest(EvidenceFloors(mpDocs[1], mpCandidate))
        /\ (mpScore = 0 <=> EvidenceFloors(mpDocs[1], mpCandidate) = {})
        /\ mpScore \in 0..100

\* a score was computed with all five classes of evidence present
C16_Witness ==
    /\ mpPc = "scored"
    /\ EvidenceFloors(mpDocs[1], mpCandidate) = {90, 85, 50, 30, 15}
    /\ mpScore = 90

\* C17: the confidence enhanceDocumentationFiles reports for a document is
\* the largest calculateMappingConfidence(input document, f) over the
\* linked files f, 0 without linked file; with the filename heuristic as
\* only evidence it is 0.3
C17_EnhanceConfidence ==
    mpPc = "enhanced" =>
        \A k \in 1..Len(mpOut) :
            mpOut[k].mappingConfidence =
                Greatest({calculateMappingConfidence(mpDocs[k], f) :
                             f \in Range(mpOut[k].linkedCodeFiles)})

NoDuplicates(list) == \A i, j \in 1..Len(list) : list[i] = list[j] => i = j

\* C18: the linkedCodeFiles enhanceDocumentationFiles computes holds no
\* file twice, holds available files only, and holds exactly the explicit
\* references that are available, the filename matches and the directory
\* matches
C18_LinkedFiles ==
    mpPc = "enhanced" =>
        \A k \in 1..Len(mpOut) :
            /\ NoDuplicates(mpOut[k].linkedCodeFiles)
            /\ Range(mpOut[k].linkedCodeFiles) \subseteq Range(mpAvailable)
            /\ Range(mpOut[k].linkedCodeFiles) =
                   (Range(extractFilePathReferences(mpDocs[k].content)) \cap Range(mpAvailable))
                   \cup Range(matchFilenamePatterns(mpDocs[k].filePath, mpAvailable))
                   \cup Range(matchDirectoryStructure(mpDocs[k].filePath, mpAvailable))

\* a record was enhanced whose content names a file that is not available
\* and a file the other heuristics find too, from a list that holds a
\* file twice
C18_Witness ==
    /\ mpPc = "enhanced"
    /\ ~ NoDuplicates(mpAvailable)
    /\ \E f \in Range(extractFilePathReferences(mpDocs[1].content)) :
          f \notin Range(mpAvailable)
    /\ \E f \in Range(extractFilePathReferences(mpDocs[1].content)) :
          /\ f \in Range(matchFilenamePatterns(mpDocs[1].filePath, mpAvailable))
          /\ f \in Range(matchDirectoryStructure(mpDocs[1].filePath, mpAvailable))
    /\ mpOut[1].linkedCodeFiles # << >>

\* a record without the linkedCodeFiles and mappingConfidence it carried
Bare(docFile) == [docFile EXCEPT !.linkedCodeFiles = << >>, !.mappingConfidence = 0]

\* C19: enhanceDocumentationFiles leaves the records passed in and the
\* list of available files as they were; it returns one record per input,
\* in order, with the same filePath and content, whose linkedCodeFiles and
\* mappingConfidence are those computed for the record without the values
\* it carried
C19_EnhanceFrame ==
    [][(mpPc = "call" /\ mpPc' = "enhanced") =>
          /\ mpDocs' = mpDocs
          /\ mpAvailable' = mpAvailable
          /\ Len(mpOut') = Len(mpDocs)
          /\ \A k \in 1..Len(mpDocs) :
                /\ mpOut'[k].filePath = mpDocs[k].filePath
                /\ mpOut'[k].content = mpDocs[k].content
                /\ mpOut'[k].linkedCodeFiles =
                       enhanceDocumentationFiles(<< Bare(mpDocs[k]) >>,
                                                 mpAvailable)[1].linkedCodeFiles
                /\ mpOut'[k].mappingConfidence =
                       enhanceDocumentationFiles(<< Bare(mpDocs[k]) >>,
                                                 mpAvailable)[1].mappingConfidence]_vars

\* two records were enhanced; the first carried a linked file and a
\* confidence that the result does not have
C19_Witness ==
    /\ mpPc = "enhanced"
    /\ Len(mpDocs) > 1
    /\ \E f \in Range(mpDocs[1].linkedCodeFiles) : f \notin Range(mpOut[1].linkedCodeFiles)
    /\ mpDocs[1].mappingConfidence # mpOut[1].mappingConfidence
    /\ mpOut[1].linkedCodeFiles # << >>

RECURSIVE LastCached(_, _)
\* what the calls of log leave cached for path p: the list of the last
\* cacheMappingResults call that holds p, unless an invalidation of p or
\* of everything came after it
LastCached(log, p) ==
    IF log = << >> THEN None
    ELSE LET op == log[Len(log)]
         IN  IF op.name = "cache" /\ p \in DOMAIN op.table THEN Some(op.table[p])
             ELSE IF op.name = "invalidate" /\ op.path \in {None, Some(p)} THEN None
             ELSE LastCached(SubSeq(log, 1, Len(log) - 1), p)

\* the entry of the cache for path p
CacheEntry(cache, p) == IF p \in DOMAIN cache THEN Some(cache[p]) ELSE None

\* C20: getCachedMappingResults(p) returns the list cached last for p when
\* p was cached and not invalidated since (an empty list as an empty
\* list), and null otherwise; invalidateMappingCache(path) leaves the
\* other entries as they were; invalidateMappingCache() leaves no entry
C20_CacheStateMachine ==
    [][/\ (mcLog' = mcLog /\ mcAsked' # None) =>
              mcGot' = LastCached(mcLog, Val(mcAsked'))
       /\ (mcLog' # mcLog /\ mcLog'[Len(mcLog')].name = "invalidate") =>
              IF mcLog'[Len(mcLog')].path = None
              THEN \A p \in CachePaths : CacheEntry(mappingCache', p) = None
              ELSE \A p \in CachePaths \ {Val(mcLog'[Len(mcLog')].path)} :
                      CacheEntry(mappingCache', p) = CacheEntry(mappingCache, p)]_vars

\* an empty list was returned for a path that was cached, dropped when
\* the whole cache was cleared and cached again; the last call invalidated
\* the other path
C20_Witness ==
    /\ mcAsked = Some(Doc.button)
    /\ mcGot = Some(<< >>)
    /\ \E i, j, k \in 1..Len(mcLog) :
          /\ i < j
          /\ j < k
          /\ mcLog[i].name = "cache"
          /\ Doc.button \in DOMAIN mcLog[i].table
          /\ mcLog[j].name = "invalidate"
          /\ mcLog[j].path = None
          /\ mcLog[k].name = "cache"
    /\ mcLog[Len(mcLog)].name = "invalidate"
    /\ mcLog[Len(mcLog)].path = Some(Doc.api)
    /\ CacheEntry(mappingCache, Doc.api) = None

\* C21: a run whose resolved configuration holds an empty API key raises
\* without any collaborator call (no listing, no read, no remote call),
\* builds no plan, records no result and changes neither a local file nor
\* a remote page
C21_ConfigErrorFirst ==
    (run >= 1 /\ apiKey = "") =>
        /\ raised
        /\ pc = "done"
        /\ calls = << >>
        /\ localDocs = << >>
        /\ actions = << >>
        /\ results = << >>
        /\ local = local0
        /\ remote = remote0

\* a run ended with the configuration error after a run that synchronised
\* documents
C21_Witness ==
    /\ run = 2
    /\ apiKey = ""
    /\ raised
    /\ lastReal
    /\ calls = << >>


\* C22: when a git invocation of getCodeChanges (the name-status listing or
\* a per-file diff) fails for a bad revision, a missing repository or a
\* repository without commits, getCodeChanges throws an error carrying the
\* message of that cause, and returns no list.
C22_GitCauseReported ==
    (IsSome(gaFailed) /\ Val(gaFailed).message # {"ENOBUFS"}) =>
        LET message == Val(gaFailed).message
        IN  /\ gaPc = "thrown"
            /\ IsSome(gaThrown)
            /\ "bad revision" \in message =>
                   \E b \in {gaBranches.baseBranch, gaBranches.targetBranch} :
                      ("Branch '" \o b \o "' does not exist") \in Val(gaThrown)
            /\ "not a git repository" \in message =>
                   "Git repository not found or not initialized" \in Val(gaThrown)
            /\ "does not have any commits" \in message =>
                   "Repository has no commits" \in Val(gaThrown)


\* the identifier written on the identifier line of a text, None if the
\* text has no identifier line
EmbeddedId(content) ==
    LET i == Lowest({k \in 1..Len(content) : content[k].kind = "id"})
    IN  IF i = 0 THEN None ELSE Some(content[i].id)

\* C23: updateLocalDocs pairs the remote document with a local file exactly
\* when some local file embeds an identifier equal to the remote one after
\* every '-' is removed from both.
C23_MatchNormalized ==
    (calls # << >> /\ calls[Len(calls)].op = "updateLocalDocs" /\ pc = "idle") =>
        LET c == calls[Len(calls)]
        IN  (c.file # "") <=>
                \E f \in Files :
                    /\ IsSome(EmbeddedId(prev[f]))
                    /\ StripDashes(Val(EmbeddedId(prev[f]))) = StripDashes(remote[c.page].id)


\* C24: when stampCommand has returned, a file without a timestamp line is
\* as it was; a file with one differs from what it was in nothing but the
\* value of its first timestamp line, which is the current time; every
\* modified file has been dealt with; the count reported is the number of
\* files whose text was rewritten.
C24_StampFrame ==
    stPc = "done" =>
        /\ \A f \in Files :
              LET i == Lowest({k \in 1..Len(stBefore[f]) : IsMarker(stBefore[f][k])})
              IN  IF i = 0 THEN stFs[f] = stBefore[f]
                  ELSE \/ stFs[f] = stBefore[f]
                       \/ stFs[f] = [stBefore[f] EXCEPT ![i] = [@ EXCEPT !.fmt = "iso",
                                                                         !.ms = stNow]]
        /\ Len(stLog) = Len(stModified)
        /\ stamped = Cardinality({f \in Files : stFs[f] # stBefore[f]})


RECURSIVE PlanPrefix(_)
\* the length of the part of the call log that holds the listing and the
\* planning iterations of the first d local documents: an iteration makes
\* one call when readFullDoc fails and two when it succeeds
PlanPrefix(d) ==
    IF d = 0 THEN 1
    ELSE LET p == PlanPrefix(d - 1)
         IN  IF p + 1 > Len(calls) THEN p
             ELSE IF calls[p + 1].ok THEN p + 2 ELSE p + 1

\* the call can be one of the calls of the k-th action of the plan
CallOfAction(c, k) ==
    /\ c.page # NoPage => c.page = actions[k].pageId
    /\ c.op \in {"readFullDoc", "updateTimestampOnly"} => c.file = actions[k].filePath

\* C25: a run is a sequential two-phase schedule.  While the plan is being
\* made nothing has been replaced or written; the call log of a run starts
\* with the listing and one planning iteration per local document, none of
\* them a replacement or a write; the calls after them are those of the
\* actions in plan order, the calls of one action all before the first call
\* of a later one; the results are those of the actions handled so far, in
\* plan order.
C25_TwoPhase ==
    LET planned == PlanPrefix(Len(localDocs))
        planning == 1..Min(planned, Len(calls))
        executing == (planned + 1)..Len(calls)
    IN  /\ pc = "plan" =>
               /\ local = local0 /\ remote = remote0 /\ results = << >>
               /\ Len(calls) = PlanPrefix(idx - 1)
        /\ \A i \in planning :
               calls[i].op \in {"readLocalDocs", "readFullDoc", "fetchPageLastEdited"}
        /\ pc \in {"exec", "done"} =>
               /\ \A d \in 1..Len(localDocs) :
                     \E i \in planning : /\ calls[i].op = "readFullDoc"
                                         /\ calls[i].file = localDocs[d].filePath
               /\ executing # {} => ~ dryRun /\ planned <= Len(calls)
               /\ \A i, j \in executing :
                     i < j => \E k, l \in 1..Len(results) :
                                 /\ k <= l
                                 /\ CallOfAction(calls[i], k)
                                 /\ CallOfAction(calls[j], l)
               /\ Len(results) <= Len(actions)
               /\ pc = "exec" => Len(results) = idx - 1
               /\ \A k \in 1..Len(results) :
                     /\ results[k].pageId = actions[k].pageId
                     /\ results[k].fileName = actions[k].fileName

C25_Witness ==
    /\ pc = "done"
    /\ Len(results) = 2
    /\ actions[1].direction = "push"
    /\ actions[2].direction = "pull"
    /\ actions[1].pageId # actions[2].pageId
    /\ results[1].success
    /\ results[2].success
    /\ Len(calls) = 11


\* the append requests replacePageContent has sent, in order
AppendRequests == SelectSeq(rpLog, LAMBDA r : r.op = "append")

\* C26: the k-th append request carries the k-th run of at most batchSize
\* consecutive blocks of the input, no other request follows an append
\* request, and when replacePageContent returns it has sent
\* ceil(n / batchSize) of them: none for an empty input, and together the
\* whole input in order.
C26_Batches ==
    LET n == Len(rpBlocks)
    IN  /\ \A k \in 1..Len(AppendRequests) :
              /\ Len(AppendRequests[k].arg) \in 1..batchSize
              /\ AppendRequests[k].arg =
                     SubSeq(rpBlocks, (k - 1) * batchSize + 1, Min(k * batchSize, n))
        /\ \A i, j \in 1..Len(rpLog) :
              (i < j /\ rpLog[i].op = "append") => rpLog[j].op = "append"
        /\ rpPc = "returned" =>
              /\ Len(AppendRequests) * batchSize >= n
              /\ (Len(AppendRequests) - 1) * batchSize < n
              /\ n = 0 => Len(AppendRequests) = 0

C26_Witness ==
    /\ rpPc = "returned"
    /\ Len(rpBlocks) = 2 * batchSize + 1
    /\ Len(AppendRequests) = 3
    /\ Len(AppendRequests[3].arg) = 1
    /\ rpBefore # << >>


\* C27: the execution of an action leaves every local file other than the
\* file of the action as it was.
C27_OwnFileOnly ==
    (run >= 1 /\ results # << >>) =>
        \A f \in Files :
            f # actions[Len(results)].filePath => local[f] = prev[f]


\* C28: a file for which some plan held a push action (its time was later
\* than the remote one) is never written by a pull, in that run or in a
\* later one, when no two local files embed the same identifier.
C28_PushNeverPulled ==
    (\A i, j \in 1..Len(localDocs) : i # j => localDocs[i].pageId # localDocs[j].pageId) =>
        \A k \in 1..Len(calls) :
            (calls[k].op = "updateLocalDocs" /\ calls[k].ok) => calls[k].file \notin pushDue


\* C29: when the result of the action executed last reports a failure, the
\* file of that action is as it was before the action was executed.
C29_FailureKeepsFile ==
    (run >= 1 /\ results # << >> /\ ~ results[Len(results)].success) =>
        local[actions[Len(results)].filePath] = prev[actions[Len(results)].filePath]

C29_Witness ==
    /\ results # << >>
    /\ ~ results[Len(results)].success
    /\ results[Len(results)].direction = "push"
    /\ calls[Len(calls)].op = "updateTimestampOnly"
    /\ remote # remote0


\* the first line of the given kinds in a text, 0 if there is none
FirstOf(content, kinds) == Lowest({k \in 1..Len(content) : content[k].kind \in kinds})

\* the indices of the lines of a text other than its identifier line, its
\* title heading, its timestamp line and its tags line
BodyIndices(content) ==
    (1..Len(content)) \ {FirstOf(content, {"id"}), FirstOf(content, {"title"}),
                          FirstOf(content, {"ts"}), FirstOf(content, {"tags"})}

\* C30: extractBodyContent returns the lines of the text other than the
\* identifier line, the title heading, the timestamp line and the tags
\* line, in order, without the blank lines at either end.
C30_BodyKeepsLines ==
    rtPc = "done" =>
        LET kept == SelectSeq([k \in 1..Len(rtContent) |->
                                  IF k \in BodyIndices(rtContent) THEN Some(rtContent[k])
                                  ELSE None],
                              IsSome)
        IN  rtOut = Trim([k \in 1..Len(kept) |-> Val(kept[k])])

====
